---- MODULE Spec2Model ----
(***************************************************************************)
(* RPC correlation and dispatch engine of bigmistqke/rpc.                  *)
(*                                                                         *)
(* Endpoint A holds a requester (createRequester) driven through a         *)
(* Commander (rpc / createRpcCommander); endpoint B exposes an object tree *)
(* (expose).  The two are joined by a duplex channel that delivers in       *)
(* order; its two directions are the queues toExposer and toRequester.     *)
(***************************************************************************)
EXTENDS Integers, Sequences, FiniteSets, TLC

(***************************************************************************)
(* Bounds of the model.                                                    *)
(***************************************************************************)
MaxCalls == 2
MaxForeign == 1
MaxChain == 3
MaxPeerHandles == 2
MaxProxies == 3
MaxBackCalls == 2
MaxDepth == 2
MaxWidth == 2
MaxAdapters == 2
MaxPosts == 2

(***************************************************************************)
(* JavaScript values.  Every value is a record of the same four fields so  *)
(* that values of different kinds can be compared:                         *)
(*   t  the kind, n  a number, s  a name or message, p  a topic path.      *)
(* A topic (a string) is a record [prefix, rest]: prefix is                *)
(* HANDLE_NAMESPACE_PREFIX when the string starts with it, "" otherwise.   *)
(***************************************************************************)
HANDLE_NAMESPACE_PREFIX == "__rpc_handle_"

Name(s) == [prefix |-> "", rest |-> s]
Prefixed(s) == [prefix |-> HANDLE_NAMESPACE_PREFIX, rest |-> s]
startsWith(topic, prefix) == topic.prefix = prefix

Val(t, n, s, p) == [t |-> t, n |-> n, s |-> s, p |-> p]
Undefined == Val("undefined", 0, "", <<>>)
Null == Val("null", 0, "", <<>>)
NaN == Val("NaN", 0, "", <<>>)
Num(n) == Val("number", n, "", <<>>)
Str(s) == Val("string", 0, s, <<>>)
EmptyObject == Val("object", 0, "{}", <<>>)
\* new Error(message); p carries the path or namespace id the message quotes.
ErrorObj(message, p) == Val("Error", 0, message, p)
\* A plain container or a function of the exposed tree; n is the value its
\* closure captured.
Obj(s, n) == Val("object", n, s, <<>>)
Fn(s, n) == Val("function", n, s, <<>>)
\* handle(methods): { [$HANDLE_MARKER]: true, methods }
handle(methods) == Val("marker", methods.n, methods.s, <<>>)
isHandleMarker(v) == v.t = "marker"
MarkerMethods(v) == Obj(v.s, v.n)
\* HandleResponseShape.create(namespaceId)
HandleResponse(namespaceId) == Val("handle", 0, "", <<namespaceId>>)
isHandleResponse(v) == v.t = "handle" /\ Len(v.p) = 1

(***************************************************************************)
(* The object tree endpoint B exposes (the shapes of the repository's      *)
(* tests, gathered in one root):                                           *)
(*   sub(a, b) => a - b             math.deep.sub likewise                 *)
(*   fail() throws Error("boom")    delayed(v) async => v                  *)
(*   delayedFail() async, rejects   version: 7 (not a function)            *)
(*   init(n) => handle({ multiply: x => x * n, createInner })              *)
(*   createInner() => handle({ getValue: () => 42 })                       *)
(*   "__rpc_handle_0": a root method whose name starts with the prefix     *)
(***************************************************************************)
Root == Obj("root", 0)
\* The object endpoint A exposes when both ends expose: ping() => "pong"
RootA == Obj("rootA", 0)
\* A factory given to expose in place of an object:
\* prefix => ({ greet: name => `${prefix} ${name}!` })
Factory == Fn("factory", 0)

\* The own property `topic` of value v in the exposed tree, undefined when
\* v has no such own property
OwnProp(v, topic) ==
    IF v.t # "object" THEN Undefined
    ELSE IF topic.prefix # "" THEN
        (IF v.s = "root" /\ topic.rest = "0" THEN Fn("shadow", 0) ELSE Undefined)
    ELSE CASE v.s = "root" /\ topic.rest = "sub" -> Fn("sub", 0)
           [] v.s = "root" /\ topic.rest = "math" -> Obj("math", 0)
           [] v.s = "root" /\ topic.rest = "fail" -> Fn("fail", 0)
           [] v.s = "root" /\ topic.rest = "delayed" -> Fn("delayed", 0)
           [] v.s = "root" /\ topic.rest = "delayedFail" -> Fn("delayedFail", 0)
           [] v.s = "root" /\ topic.rest = "version" -> Num(7)
           [] v.s = "root" /\ topic.rest = "init" -> Fn("init", 0)
           [] v.s = "math" /\ topic.rest = "deep" -> Obj("deep", 0)
           [] v.s = "deep" /\ topic.rest = "sub" -> Fn("sub", 0)
           [] v.s = "calc" /\ topic.rest = "multiply" -> Fn("multiply", v.n)
           [] v.s = "calc" /\ topic.rest = "createInner" -> Fn("createInner", 0)
           [] v.s = "inner" /\ topic.rest = "getValue" -> Fn("getValue", 0)
           [] v.s = "rootA" /\ topic.rest = "ping" -> Fn("ping", 0)
           [] v.s = "greeter" /\ topic.rest = "greet" -> Fn("greet", 0)
           [] OTHER -> Undefined

\* What a plain object inherits from Object.prototype (two of its members)
ObjectPrototype(topic) ==
    CASE topic = Name("toString") -> Fn("toString", 0)
      [] topic = Name("constructor") -> Fn("Object", 0)
      [] OTHER -> Undefined

\* acc?.[topic]: a property read finds own properties and, failing that,
\* those of the prototype chain; undefined?.[topic] is undefined
GetProp(v, topic) ==
    IF OwnProp(v, topic) # Undefined THEN OwnProp(v, topic)
    ELSE IF v.t = "object" THEN ObjectPrototype(topic)
    ELSE Undefined

\* args[i] of a JavaScript call: undefined past the end
Arg(args, i) == IF i <= Len(args) THEN args[i] ELSE Undefined

\* What calling the function does: mode "return" / "throw" for a synchronous
\* outcome, "resolve" / "reject" for a promise that settles later.
Outcome(mode, value) == [mode |-> mode, value |-> value]

Behaviour(fn, args) ==
    CASE fn.s = "sub" ->
           Outcome("return",
                   IF Arg(args, 1).t = "number" /\ Arg(args, 2).t = "number"
                   THEN Num(Arg(args, 1).n - Arg(args, 2).n) ELSE NaN)
      [] fn.s = "fail" -> Outcome("throw", ErrorObj("boom", <<>>))
      [] fn.s = "delayed" -> Outcome("resolve", Arg(args, 1))
      [] fn.s = "delayedFail" -> Outcome("reject", ErrorObj("boom", <<>>))
      [] fn.s = "init" ->
           Outcome("return",
                   handle(Obj("calc", IF Arg(args, 1).t = "number" THEN Arg(args, 1).n ELSE 0)))
      [] fn.s = "multiply" ->
           Outcome("return",
                   IF Arg(args, 1).t = "number" THEN Num(Arg(args, 1).n * fn.n) ELSE NaN)
      [] fn.s = "createInner" -> Outcome("return", handle(Obj("inner", 0)))
      [] fn.s = "getValue" -> Outcome("return", Num(42))
      [] fn.s = "ping" -> Outcome("return", Str("pong"))
      [] fn.s = "factory" -> Outcome("return", Obj("greeter", 0))
      [] fn.s = "greet" -> Outcome("return", Str("Hello"))
      [] fn.s = "toString" -> Outcome("return", Str("[object Object]"))
      [] fn.s = "Object" -> Outcome("return", EmptyObject)
      [] OTHER -> Outcome("return", Num(0))

(***************************************************************************)
(* callMethod (core.ts): walk the topic path by property lookup, throw     *)
(* when the result is not a function, else call it with `methods` as       *)
(* receiver.  `invoked` says whether a function was called, `fn` and       *)
(* `this` which one and on what receiver, `result` what the call did.      *)
(***************************************************************************)
RECURSIVE Reduce(_, _)
Reduce(acc, topics) ==
    IF topics = <<>> THEN acc ELSE Reduce(GetProp(acc, Head(topics)), Tail(topics))

Called(invoked, fn, this, args, result) ==
    [invoked |-> invoked, fn |-> fn, this |-> this, args |-> args, result |-> result]

\* A faulty variant: the arguments applied in reverse order.
Reverse(seq) == [i \in DOMAIN seq |-> seq[Len(seq) + 1 - i]]
callMethodReversed(methods, topics, args) ==
    LET method == Reduce(methods, topics)
    IN  IF method.t # "function"
        THEN Called(FALSE, method, methods, args,
                    Outcome("throw", ErrorObj("Topics did not resolve to a function", topics)))
        ELSE Called(TRUE, method, methods, Reverse(args), Behaviour(method, Reverse(args)))

callMethod(methods, topics, args) ==
    LET method == Reduce(methods, topics)
    IN  IF method.t # "function"
        THEN Called(FALSE, method, methods, args,
                    Outcome("throw", ErrorObj("Topics did not resolve to a function", topics)))
        ELSE Called(TRUE, method, methods, args, Behaviour(method, args))

(***************************************************************************)
(* Wire envelopes.  The protocol module (RequestShape, ResponseShape,      *)
(* ErrorShape, RPCPayloadShape) is not among the sources; its shapes are   *)
(* taken from the specification's section 6 and from the literals of the   *)
(* tests.  An envelope is a record of the same six fields for every kind.  *)
(***************************************************************************)
Envelope(kind, id, rpc, topics, args, value) ==
    [kind |-> kind, id |-> id, rpc |-> rpc, topics |-> topics, args |-> args, value |-> value]
\* RequestShape.create(id, RPCPayloadShape.create(topics, args))
RequestCreate(id, topics, args) == Envelope("request", id, TRUE, topics, args, Undefined)
\* A Request whose payload is an init payload, { [$MESSENGER_INIT]: true, args }
InitPayload == Val("init", 0, "", <<>>)
InitRequest(id, args) == Envelope("request", id, FALSE, <<>>, args, InitPayload)
\* ResponseShape.create(request, payload)
ResponseCreate(request, payload) == Envelope("response", request.id, FALSE, <<>>, <<>>, payload)
\* ErrorShape.create(request, error)
ErrorCreate(request, error) == Envelope("error", request.id, FALSE, <<>>, <<>>, error)
NoEnvelope == Envelope("none", 0, FALSE, <<>>, <<>>, Undefined)

RequestValidate(data) == data.kind = "request"
ResponseValidate(data) == data.kind = "response"
ErrorValidate(data) == data.kind = "error"
RPCPayloadValidate(data) == data.rpc

(***************************************************************************)
(* JSON.parse(JSON.stringify(v)) on the socket flavor.  A text is          *)
(* represented by the value it parses to.  An Error has no enumerable own  *)
(* property and becomes {}; undefined and functions are dropped from an    *)
(* object (the key is then absent: undefined when read) and become null in *)
(* an array; NaN becomes null.                                             *)
(***************************************************************************)
JsonValue(v, inArray) ==
    CASE v.t \in {"undefined", "function"} -> IF inArray THEN Null ELSE Undefined
      [] v.t = "NaN" -> Null
      [] v.t \in {"Error", "marker", "object"} -> EmptyObject
      [] OTHER -> v

JsonStringify(data) ==
    [data EXCEPT !.value = JsonValue(@, FALSE),
                 !.args = [i \in DOMAIN data.args |-> JsonValue(data.args[i], TRUE)]]

\* What is put on the channel: the message itself (postMessage, structured
\* clone), or its JSON text (ws.send).
Wire(flavor, data) ==
    IF flavor = "socket" THEN [json |-> TRUE, data |-> JsonStringify(data)]
    ELSE [json |-> FALSE, data |-> data]
\* event.data as the listener reads it (parseData on the socket flavor)
parseData(message) == message.data
\* A text that is no JSON: JSON.parse throws a SyntaxError on it.
Unparsable == Envelope("unparsable", 0, FALSE, <<>>, <<>>, Undefined)
MalformedText == [json |-> TRUE, data |-> Unparsable]
parseThrows(message) == message.json /\ message.data = Unparsable

(***************************************************************************)
(* createIdRegistry (utils, not among the sources): modelled from the      *)
(* specification's section 4.2.  register allocates the next id of a       *)
(* monotonically increasing counter and stores the entry; free removes and *)
(* returns the entry when present and signals absence otherwise.           *)
(***************************************************************************)
FirstId == 0
createIdRegistry == [next |-> FirstId, entries |-> <<>>, ids |-> {}]

Lookup(registry, id) ==
    CHOOSE i \in DOMAIN registry.entries : registry.entries[i].id = id

Remove(seq, i) == SubSeq(seq, 1, i - 1) \o SubSeq(seq, i + 1, Len(seq))

\* A faulty variant: the counter is read but never advanced.
registerReusing(registry, value) ==
    [id |-> registry.next,
     registry |-> [next |-> registry.next,
                   entries |-> Append(registry.entries, [id |-> registry.next, value |-> value]),
                   ids |-> registry.ids \cup {registry.next}]]

register(registry, value) ==
    [id |-> registry.next,
     registry |-> [next |-> registry.next + 1,
                   entries |-> Append(registry.entries, [id |-> registry.next, value |-> value]),
                   ids |-> registry.ids \cup {registry.next}]]

free(registry, id) ==
    IF id \in registry.ids
    THEN [found |-> TRUE,
          value |-> registry.entries[Lookup(registry, id)].value,
          registry |-> [registry EXCEPT !.entries = Remove(@, Lookup(registry, id)),
                                        !.ids = @ \ {id}]]
    ELSE [found |-> FALSE, value |-> 0, registry |-> registry]

(***************************************************************************)
(* The exposing side: the Remote Reference Registry (namespaceHandlers, a  *)
(* Map kept as a set of [key, value] entries) and the dispatcher.          *)
(***************************************************************************)
MapHas(map, key) == \E e \in map : e.key = key
MapGet(map, key) == (CHOOSE e \in map : e.key = key).value
MapSet(map, key, value) == {e \in map : e.key # key} \cup {[key |-> key, value |-> value]}

\* `${HANDLE_NAMESPACE_PREFIX}${handleNamespaceCounter++}`
nextHandleNamespaceId(counter) == Prefixed(ToString(counter))

\* A faulty variant: the counter is read but not incremented.
processResultStale(result, handlers, counter) ==
    IF isHandleMarker(result)
    THEN [value |-> HandleResponse(nextHandleNamespaceId(counter)),
          handlers |-> MapSet(handlers, nextHandleNamespaceId(counter), MarkerMethods(result)),
          counter |-> counter]
    ELSE [value |-> result, handlers |-> handlers, counter |-> counter]

processResult(result, handlers, counter) ==
    IF isHandleMarker(result)
    THEN [value |-> HandleResponse(nextHandleNamespaceId(counter)),
          handlers |-> MapSet(handlers, nextHandleNamespaceId(counter), MarkerMethods(result)),
          counter |-> counter + 1]
    ELSE [value |-> result, handlers |-> handlers, counter |-> counter]

\* The synchronous part of expose's listener, up to the await: route the
\* request to a handle's object or to the root and call the method.
\* `call` is what callMethod did, `awaited` what the listener's await sees.
Dispatched(call, awaited) == [call |-> call, awaited |-> awaited]

\* A faulty variant: the rest of a namespaced path is walked from the root.
DispatchAtRoot(methods, handlers, topics, args) ==
    IF Len(topics) > 0 /\ startsWith(topics[1], HANDLE_NAMESPACE_PREFIX)
    THEN IF ~MapHas(handlers, topics[1])
         THEN Dispatched(Called(FALSE, Undefined, Undefined, args, Outcome("none", Undefined)),
                         Outcome("throw", ErrorObj("Unknown namespace", <<topics[1]>>)))
         ELSE LET call == callMethod(methods, Tail(topics), args)
              IN  Dispatched(call, call.result)
    ELSE LET call == callMethod(methods, topics, args)
         IN  Dispatched(call, call.result)

\* A faulty variant: every path is walked from the root, the reserved prefix
\* is not looked at.
DispatchUnrouted(methods, handlers, topics, args) ==
    LET call == callMethod(methods, topics, args)
    IN  Dispatched(call, call.result)

Dispatch(methods, handlers, topics, args) ==
    IF Len(topics) > 0 /\ startsWith(topics[1], HANDLE_NAMESPACE_PREFIX)
    THEN IF ~MapHas(handlers, topics[1])
         THEN Dispatched(Called(FALSE, Undefined, Undefined, args, Outcome("none", Undefined)),
                         Outcome("throw", ErrorObj("Unknown namespace", <<topics[1]>>)))
         ELSE LET call == callMethod(MapGet(handlers, topics[1]), Tail(topics), args)
              IN  Dispatched(call, call.result)
    ELSE LET call == callMethod(methods, topics, args)
         IN  Dispatched(call, call.result)

\* The callback the createResponder-based expose hands to createResponder:
\* it logs what callMethod throws and returns undefined.
ResponderCallback(methods, handlers, topics, args) ==
    LET call == callMethod(methods, topics, args)
    IN  IF call.result.mode = "throw"
        THEN Dispatched(call, Outcome("return", Undefined))
        ELSE Dispatched(call, call.result)

\* Whether the listener is still attached after a request whose handling
\* ended as `awaited`: the try/catch keeps every failure inside the handler
\* and nothing in it removes the listener.
\* A faulty variant: a failure tears the listener down.
ListeningAfterFailure(attached, awaited) == attached /\ awaited.mode \notin {"throw", "reject"}

ListeningAfter(attached, awaited) == attached

\* A faulty variant of Reply: a failure is logged and answered with an empty
\* Response.
ReplySwallow(request, result, handlers, counter) ==
    IF result.mode \in {"return", "resolve"}
    THEN LET processed == processResult(result.value, handlers, counter)
         IN  [message |-> ResponseCreate(request, processed.value),
              handlers |-> processed.handlers, counter |-> processed.counter]
    ELSE [message |-> ResponseCreate(request, Undefined),
          handlers |-> handlers, counter |-> counter]

\* A faulty variant of Reply: the result of a call through a handle is
\* sent as it is, without processResult.
ReplyRootOnly(request, result, handlers, counter) ==
    IF result.mode \in {"return", "resolve"}
    THEN LET processed ==
                 IF Len(request.topics) > 0 /\ startsWith(request.topics[1], HANDLE_NAMESPACE_PREFIX)
                 THEN [value |-> result.value, handlers |-> handlers, counter |-> counter]
                 ELSE processResult(result.value, handlers, counter)
         IN  [message |-> ResponseCreate(request, processed.value),
              handlers |-> processed.handlers, counter |-> processed.counter]
    ELSE [message |-> ErrorCreate(request, result.value),
          handlers |-> handlers, counter |-> counter]

\* The rest of the listener, once the method's outcome is known: the reply
\* and the registry after processResult.
Reply(request, result, handlers, counter) ==
    IF result.mode \in {"return", "resolve"}
    THEN LET processed == processResult(result.value, handlers, counter)
         IN  [message |-> ResponseCreate(request, processed.value),
              handlers |-> processed.handlers, counter |-> processed.counter]
    ELSE [message |-> ErrorCreate(request, result.value),
          handlers |-> handlers, counter |-> counter]

\* createResponder's try/catch around `await callback(data)`: no handles.
ResponderReply(request, result, handlers, counter) ==
    [message |-> IF result.mode \in {"return", "resolve"}
                 THEN ResponseCreate(request, result.value)
                 ELSE ErrorCreate(request, result.value),
     handlers |-> handlers, counter |-> counter]

(***************************************************************************)
(* The calling side: the listener createRequester attaches, and the        *)
(* deferred promise of each call.                                          *)
(***************************************************************************)
\* (`channel` is what the messenger's postMessage / send did with the
\* request, `raised` whether an exception left the send function in place
\* of the promise)
Call(topics, args, id, via, names) ==
    [topics |-> topics, args |-> args, id |-> id, state |-> "pending",
     value |-> Undefined, by |-> NoEnvelope, settles |-> 0,
     via |-> via, names |-> names, channel |-> "queues", raised |-> FALSE]

\* resolve(value) / reject(value) of call c's deferred promise, reached
\* through the registry entry freed for `data`.
Settle(cs, c, state, value, data) ==
    [cs EXCEPT ![c] = [@ EXCEPT !.state = IF @ = "pending" THEN state ELSE @,
                                !.value = IF cs[c].state = "pending" THEN value ELSE @,
                                !.by = IF cs[c].state = "pending" THEN data ELSE @,
                                !.settles = @ + 1]]

Listened(registry, cs, threw) == [registry |-> registry, calls |-> cs, threw |-> threw]

\* Faulty variants of the listener, used to show that the properties below
\* depend on it: matching by arrival order instead of by id ...
OnReplyInOrder(registry, cs, data) ==
    IF (ErrorValidate(data) \/ ResponseValidate(data)) /\ registry.entries # <<>>
    THEN LET freed == free(registry, registry.entries[1].id)
         IN  Listened(freed.registry,
                      Settle(cs, freed.value,
                             IF ErrorValidate(data) THEN "rejected" ELSE "resolved",
                             data.value, data), FALSE)
    ELSE Listened(registry, cs, FALSE)

\* ... `free(id).reject(...)` without the optional chaining ...
OnReplyUnchecked(registry, cs, data) ==
    IF ErrorValidate(data) \/ ResponseValidate(data)
    THEN LET freed == free(registry, data.id)
         IN  Listened(freed.registry,
                      IF freed.found
                      THEN Settle(cs, freed.value,
                                  IF ErrorValidate(data) THEN "rejected" ELSE "resolved",
                                  data.value, data)
                      ELSE cs, ~freed.found)
    ELSE Listened(registry, cs, FALSE)

\* ... reading the entry without removing it ...
OnReplyKeep(registry, cs, data) ==
    IF ErrorValidate(data) \/ ResponseValidate(data)
    THEN LET freed == free(registry, data.id)
         IN  Listened(registry,
                      IF freed.found
                      THEN Settle([cs EXCEPT ![freed.value].state = "pending"], freed.value,
                                  IF ErrorValidate(data) THEN "rejected" ELSE "resolved",
                                  data.value, data)
                      ELSE cs, FALSE)
    ELSE Listened(registry, cs, FALSE)

\* ... resolving on an Error envelope ...
OnReplyResolveOnly(registry, cs, data) ==
    IF ErrorValidate(data) \/ ResponseValidate(data)
    THEN LET freed == free(registry, data.id)
         IN  Listened(freed.registry,
                      IF freed.found THEN Settle(cs, freed.value, "resolved", data.value, data)
                      ELSE cs, FALSE)
    ELSE Listened(registry, cs, FALSE)

\* ... and taking every envelope that is not an Error for a Response.
OnReplyAnyKind(registry, cs, data) ==
    LET freed == free(registry, data.id)
    IN  Listened(freed.registry,
                 IF freed.found
                 THEN Settle(cs, freed.value,
                             IF ErrorValidate(data) THEN "rejected" ELSE "resolved",
                             data.value, data)
                 ELSE cs, FALSE)

OnReply(registry, cs, data) ==
    IF ErrorValidate(data)
    THEN LET freed == free(registry, data.id)
         IN  Listened(freed.registry,
                      IF freed.found THEN Settle(cs, freed.value, "rejected", data.value, data)
                      ELSE cs, FALSE)
    ELSE IF ResponseValidate(data)
    THEN LET freed == free(registry, data.id)
         IN  Listened(freed.registry,
                      IF freed.found THEN Settle(cs, freed.value, "resolved", data.value, data)
                      ELSE cs, FALSE)
    ELSE Listened(registry, cs, FALSE)

\* What a messenger does when postMessage / send is called on it: it queues
\* the message for the other side, or it dispatches a reply of the given
\* kind to its own listeners before postMessage returns, or it throws.
Channel(does, kind, value) == [does |-> does, kind |-> kind, value |-> value]

\* The reply an echoing messenger dispatches for `request`, as the listener
\* of the given transport receives it.
Echo(transport, channel, request) ==
    parseData(Wire(transport,
                   IF channel.kind = "error" THEN ErrorCreate(request, channel.value)
                   ELSE ResponseCreate(request, channel.value)))

\* What the send function left behind: the registry, the calls, the
\* messages queued for the other side, and what the listener heard while
\* postMessage ran (`known`: its id was registered at that moment).
Sent(registry, cs, posted, heard, known) ==
    [registry |-> registry, calls |-> cs, posted |-> posted, heard |-> heard, known |-> known]

\* A faulty variant of the send function: the request is posted first and
\* the pending entry registered after postMessage has returned.
sendPostFirst(registry, cs, transport, topics, args, channel) ==
    LET request == RequestCreate(registry.next, topics, args)
        issued == Append(cs, [Call(topics, args, registry.next, 0, topics)
                                  EXCEPT !.channel = channel.does])
    IN  IF channel.does = "throws"
        THEN Sent(registry, [issued EXCEPT ![Len(issued)].raised = TRUE], <<>>, <<>>, FALSE)
        ELSE IF channel.does = "echoes"
        THEN LET heard == OnReply(registry, issued, Echo(transport, channel, request))
             IN  Sent(register(heard.registry, Len(issued)).registry, heard.calls, <<>>,
                      <<Echo(transport, channel, request)>>, request.id \in registry.ids)
        ELSE Sent(register(registry, Len(issued)).registry, issued,
                  <<Wire(transport, request)>>, <<>>, FALSE)

\* A faulty variant of the send function: what postMessage throws is caught,
\* the entry freed and the promise rejected with it.
sendCatching(registry, cs, transport, topics, args, channel) ==
    LET registered == register(registry, Len(cs) + 1)
        request == RequestCreate(registered.id, topics, args)
        issued == Append(cs, [Call(topics, args, registered.id, 0, topics)
                                  EXCEPT !.channel = channel.does])
    IN  IF channel.does = "throws"
        THEN Sent(free(registered.registry, registered.id).registry,
                  Settle(issued, Len(issued), "rejected", ErrorObj("send", <<>>), NoEnvelope),
                  <<>>, <<>>, FALSE)
        ELSE IF channel.does = "echoes"
        THEN LET heard == OnReply(registered.registry, issued, Echo(transport, channel, request))
             IN  Sent(heard.registry, heard.calls, <<>>,
                      <<Echo(transport, channel, request)>>,
                      request.id \in registered.registry.ids)
        ELSE Sent(registered.registry, issued, <<Wire(transport, request)>>, <<>>, FALSE)

\* The function createRequester returns, called from the root proxy:
\*   const id = promiseRegistry.register({ resolve, reject })
\*   postMessage(RequestShape.create(id, payload), transferables)
\*   return promise
\* The entry is registered before postMessage runs, so the listener that an
\* echoing messenger calls during postMessage finds it; when postMessage
\* throws, nothing after it runs and the exception leaves the function.
send(registry, cs, transport, topics, args, channel) ==
    LET registered == register(registry, Len(cs) + 1)
        request == RequestCreate(registered.id, topics, args)
        issued == Append(cs, [Call(topics, args, registered.id, 0, topics)
                                  EXCEPT !.channel = channel.does])
    IN  IF channel.does = "throws"
        THEN Sent(registered.registry, [issued EXCEPT ![Len(issued)].raised = TRUE],
                  <<>>, <<>>, FALSE)
        ELSE IF channel.does = "echoes"
        THEN LET heard == OnReply(registered.registry, issued, Echo(transport, channel, request))
             IN  Sent(heard.registry, heard.calls, <<>>,
                      <<Echo(transport, channel, request)>>,
                      request.id \in registered.registry.ids)
        ELSE Sent(registered.registry, issued, <<Wire(transport, request)>>, <<>>, FALSE)

\* A Commander (proxy) whose calls are prefixed with `prefix`
Commander(prefix) == Val("commander", 0, "", prefix)
\* A JavaScript string is truthy unless it is empty
Truthy(topic) == topic.prefix # "" \/ topic.rest # ""

\* A faulty variant: the sub-proxy gets no prefix.
ThenResultRootPrefix(result) ==
    IF isHandleResponse(result) THEN Commander(<<>>) ELSE result

\* createRpcCommander's then-callback: a handle response becomes a
\* Commander whose topic prefix is the namespace id; anything else is
\* passed on.
ThenResult(result) ==
    IF isHandleResponse(result)
    THEN Commander(IF Truthy(result.p[1]) THEN <<result.p[1]>> ELSE <<>>)
    ELSE result

(***************************************************************************)
(* extractTransferables (messenger.ts).  An argument is a tree: a number,  *)
(* a buffer, an array (kids are its elements), a plain record (kids are    *)
(* the values of its fields in enumeration order, keys their names) or an  *)
(* instance of a class (kids are its fields).  `marked` says that          *)
(* transfer() was applied to the value.                                    *)
(***************************************************************************)
Node(t, n, marked, keys, kids) == [t |-> t, n |-> n, marked |-> marked, keys |-> keys, kids |-> kids]
Number(n) == Node("number", n, FALSE, <<>>, <<>>)
Buffer(n) == Node("buffer", n, FALSE, <<>>, <<>>)
Function(n) == Node("function", n, FALSE, <<>>, <<>>)
Array(kids) == Node("array", 0, FALSE, <<>>, kids)
FieldNames == <<"buf", "list">>
Record(kids) == Node("record", 0, FALSE, SubSeq(FieldNames, 1, Len(kids)), kids)
Instance(kids) == Node("instance", 0, FALSE, SubSeq(FieldNames, 1, Len(kids)), kids)
\* transfer(value): Object.assign(value, { [$TRANSFER]: true })
transfer(value) == [value EXCEPT !.marked = TRUE]
\* !!value && typeof value === 'object' && $TRANSFER in value
isTransferred(value) == value.t \notin {"number", "function"} /\ value.marked

RECURSIVE processValue(_, _)
RECURSIVE processValues(_, _, _)
\* values.map(processValue) from element i on, with the transferables
\* pushed so far
processValues(values, i, transferables) ==
    IF i > Len(values) THEN [values |-> <<>>, transferables |-> transferables]
    ELSE LET first == processValue(values[i], transferables)
             rest == processValues(values, i + 1, first.transferables)
         IN  [values |-> <<first.value>> \o rest.values, transferables |-> rest.transferables]

processValue(value, transferables) ==
    IF isTransferred(value)
    THEN [value |-> value, transferables |-> Append(transferables, value)]
    ELSE IF value.t = "array"
    THEN LET processed == processValues(value.kids, 1, transferables)
         IN  [value |-> Array(processed.values),
              transferables |-> processed.transferables]
    ELSE IF value.t = "record"
    THEN \* a fresh {} filled key by key in for...in order
         LET processed == processValues(value.kids, 1, transferables)
         IN  [value |-> Node("record", 0, FALSE, value.keys, processed.values),
              transferables |-> processed.transferables]
    ELSE [value |-> value, transferables |-> transferables]

(***************************************************************************)
(* The same function, followed by object identity.  The objects of the     *)
(* input are named by their place in it (the path of indices from args);   *)
(* an object the call allocates is named by the place of the input         *)
(* container it was built from, and is `fresh`.  `kids` are the objects    *)
(* the returned container holds (none for a value that was returned as it  *)
(* is, whose kids were not looked at); `writes` are the objects the call   *)
(* assigned into.                                                          *)
(***************************************************************************)
Ref(fresh, path) == [fresh |-> fresh, path |-> path]
Returned(ref, kids, writes) == [ref |-> ref, kids |-> kids, writes |-> writes]

RECURSIVE processValueInPlace(_, _)
\* A faulty variant: arrays and records are processed in place,
\* value[key] = processValue(value[key]), and returned themselves.
processValueInPlace(value, path) ==
    IF isTransferred(value) \/ value.t \notin {"array", "record"}
    THEN Returned(Ref(FALSE, path), <<>>, {})
    ELSE LET kids == [i \in DOMAIN value.kids |->
                         processValueInPlace(value.kids[i], Append(path, i))]
         IN  Returned(Ref(FALSE, path), kids,
                      (IF kids = <<>> THEN {} ELSE {Ref(FALSE, path)})
                          \cup UNION {kids[i].writes : i \in DOMAIN kids})

RECURSIVE processValueIdentity(_, _)
\* processValue: `return value` hands back the object it was given;
\* value.map(processValue) allocates an array, `const result = {}` a
\* record, and result[key] = ... assigns into that new record.
processValueIdentity(value, path) ==
    IF isTransferred(value) \/ value.t \notin {"array", "record"}
    THEN Returned(Ref(FALSE, path), <<>>, {})
    ELSE LET kids == [i \in DOMAIN value.kids |->
                         processValueIdentity(value.kids[i], Append(path, i))]
         IN  Returned(Ref(TRUE, path), kids,
                      (IF kids = <<>> THEN {} ELSE {Ref(TRUE, path)})
                          \cup UNION {kids[i].writes : i \in DOMAIN kids})

\* args.map(processValue): the objects returned for each argument
extractIdentity(args) == [i \in DOMAIN args |-> processValueIdentity(args[i], <<i>>)]

\* A faulty variant: the transferables come out in reverse order.
extractTransferablesReversed(args) ==
    [args |-> processValues(args, 1, <<>>).values,
     transferables |-> Reverse(processValues(args, 1, <<>>).transferables)]

extractTransferables(args) ==
    [args |-> processValues(args, 1, <<>>).values,
     transferables |-> processValues(args, 1, <<>>).transferables]

\* A call of extractTransferables that has not run yet
Extraction(args) ==
    [args |-> args, done |-> FALSE, result |-> [args |-> <<>>, transferables |-> <<>>],
     identity |-> <<>>]

(***************************************************************************)
(* State.                                                                  *)
(***************************************************************************)
VARIABLES
    flavor,                  \* "port" (postMessage) or "socket" (JSON text)
    script,                  \* what the caller's program does: "any", "handles",
                             \*    "commander"
    proxies,                 \* A: the root proxy and the result of every property
                             \*    access made on a proxy, in order
    responder,               \* TRUE: expose built on createResponder (no handles)
    promiseRegistry,         \* A: the requester's pending-call registry
    calls,                   \* A: the calls issued, in order, with their promises
    foreign,                 \* A: envelopes delivered that no request of A caused
    lastHeard,               \* A: the last envelope the listener ran on, and whether
                             \*    its id was registered when it arrived
    uncaught,                \* endpoints whose listener let an exception escape
    sibling,                 \* A: a second requester made on the same messenger
                             \*    (its own promiseRegistry and calls)
    exposeSignal,            \* B: the AbortSignal given to expose
    toExposer,               \* channel A -> B
    toRequester,             \* channel B -> A
    listening,               \* B: the message listener is attached
    namespaceHandlers,       \* B: Remote Reference Registry
    handleNamespaceCounter,  \* the namespace id counters of B's process, one per
                             \*    module that declares one
    peer,                    \* another exposing endpoint in B's process
    extraction,              \* a call of extractTransferables: its input and result
    signal,                  \* A: the abort signal given to the requester, and how
                             \*    many calls had been issued when it fired
    messenger,               \* the target an adapter is created on: what typeof
                             \*    says of its members, and the calls made on it
    exposed,                 \* B: the value given to expose
    stray,                   \* B: the messages that arrived with no request of A
                             \*    behind them
    back,                    \* the opposite direction on the same channel: B's
                             \*    requester and A's exposing endpoint
    tasks,                   \* B: requests taken up by the listener, in arrival order
    invoked,                 \* B: every call of an exposed function
    sent                     \* B: every envelope handed to postMessage / send

vars == <<flavor, script, proxies, responder, promiseRegistry, calls, foreign, lastHeard, uncaught, toExposer,
          toRequester, listening, namespaceHandlers, handleNamespaceCounter, peer, back,
          extraction, signal, messenger, exposed, stray, tasks, invoked, sent,
          sibling, exposeSignal>>

requesterVars == <<promiseRegistry, calls, foreign, lastHeard, sibling>>
exposerVars == <<listening, namespaceHandlers, handleNamespaceCounter, tasks, invoked, sent,
                 exposeSignal>>

\* The modules with a counter of their own: `let handleNamespaceCounter` of
\* messenger.ts, and the one of the handle module behind
\* nextHandleNamespaceId, which the websocket expose uses.
CounterModules == {"messenger", "handle"}
CounterOf(transport) == IF transport = "socket" THEN "handle" ELSE "messenger"

\* An abort signal: whether it has fired, and the number of calls issued
\* before it did
Signal(aborted, at) == [aborted |-> aborted, at |-> at]

\* A target: typeof target === 'object', typeof target.postMessage, typeof
\* target.closed, start ("absent" when 'start' in target is false), and the
\* calls made on the target so far.
Target(object, postMessage, closed, start) ==
    [object |-> object, postMessage |-> postMessage, closed |-> closed, start |-> start,
     adapters |-> <<>>, log |-> <<>>]
MessagePort == Target(TRUE, "function", "undefined", "function")

\* An exposing endpoint of the given flavor that has handled nothing yet
\* (`heard` the requests it took up, `sent` its replies in the same order,
\* `invoked` the calls it made, each with the index of its request)
Exposer(transport) ==
    [flavor |-> transport, namespaceHandlers |-> {}, heard |-> <<>>, sent |-> <<>>,
     invoked |-> <<>>]

\* A proxy made by createCommander: `topics` is the array its closure
\* holds, `accessed` the names the caller accessed to reach it from the
\* root proxy; the result of an access that is no proxy is not live.
Proxy(accessed, topics, live) == [accessed |-> accessed, topics |-> topics, live |-> live]

\* A faulty variant of the get trap: one topics array is shared and pushed to.
CommanderGetShared(topics, topic) ==
    IF topic = Name("then")
    THEN [parent |-> topics, child |-> topics, live |-> FALSE]
    ELSE [parent |-> Append(topics, topic), child |-> Append(topics, topic), live |-> TRUE]

\* The get trap of createCommander: undefined for "then", else a new proxy
\* holding a copy of the topics with the accessed name appended.  `parent`
\* is the accessed proxy's own topics afterwards.
CommanderGet(topics, topic) ==
    IF topic = Name("then")
    THEN [parent |-> topics, child |-> topics, live |-> FALSE]
    ELSE [parent |-> topics, child |-> Append(topics, topic), live |-> TRUE]

\* B's requester (registry, calls) and A's exposing endpoint (tasks, calls
\* of exposed functions, envelopes sent, registry of handles) at the start
Opposite ==
    [promiseRegistry |-> createIdRegistry, calls |-> <<>>, tasks |-> <<>>,
     invoked |-> <<>>, sent |-> <<>>, namespaceHandlers |-> {}]

InitEndpoints ==
    /\ back = Opposite
    /\ proxies = <<Proxy(<<>>, <<>>, TRUE)>>
    /\ promiseRegistry = createIdRegistry
    /\ calls = <<>>
    /\ foreign = 0
    /\ stray = {}
    /\ signal = Signal(FALSE, 0)
    /\ exposeSignal = Signal(FALSE, 0)
    /\ sibling = [promiseRegistry |-> createIdRegistry, calls |-> <<>>]
    /\ lastHeard = [data |-> NoEnvelope, known |-> FALSE]
    /\ uncaught = {}
    /\ toExposer = <<>>
    /\ toRequester = <<>>
    /\ listening = TRUE
    /\ namespaceHandlers = {}
    /\ handleNamespaceCounter = [module \in CounterModules |-> 0]
    /\ tasks = <<>>
    /\ invoked = <<>>
    /\ sent = <<>>

\* The endpoints on a message port, with the object tree of Root exposed
InitCommon ==
    /\ messenger = MessagePort
    /\ exposed = Root
    /\ InitEndpoints

\* rpc() and expose() of messenger.ts (port) or websocket/index.ts (socket)
Init ==
    /\ flavor \in {"port", "socket"}
    /\ script = "any"
    /\ responder = FALSE
    /\ peer = Exposer(flavor)
    /\ extraction = Extraction(<<>>)
    /\ InitCommon

\* The same with a caller that works through handles, up to MaxChain calls
InitHandles ==
    /\ flavor \in {"port", "socket"}
    /\ script = "handles"
    /\ responder = FALSE
    /\ peer = Exposer(flavor)
    /\ extraction = Extraction(<<>>)
    /\ InitCommon

\* rpc() and expose() of the createResponder-based messenger module
InitResponder ==
    /\ flavor = "port"
    /\ script = "any"
    /\ responder = TRUE
    /\ peer = Exposer(flavor)
    /\ extraction = Extraction(<<>>)
    /\ InitCommon

(***************************************************************************)
(* What the caller does with the Commander: the property paths and         *)
(* argument lists tried on the root proxy and on a handle's proxy.         *)
(***************************************************************************)
Path(topics, args) == [topics |-> topics, args |-> args]

RootPaths ==
    { Path(<<Name("sub")>>, <<Num(2), Num(1)>>),
      Path(<<Name("math"), Name("deep"), Name("sub")>>, <<Num(1), Num(2)>>),
      Path(<<Name("fail")>>, <<>>),
      Path(<<Name("delayed")>>, <<Num(1)>>),
      Path(<<Name("delayed")>>, <<>>),
      Path(<<Name("delayedFail")>>, <<>>),
      Path(<<Name("init")>>, <<Num(2)>>),
      Path(<<Name("version")>>, <<>>),
      Path(<<Name("math"), Name("nope"), Name("sub")>>, <<>>),
      Path(<<Prefixed("0")>>, <<>>),
      Path(<<Prefixed("0"), Name("multiply")>>, <<Num(2)>>),
      Path(<<>>, <<>>) }

HandlePaths ==
    { Path(<<Name("multiply")>>, <<Num(2)>>),
      Path(<<Name("createInner")>>, <<>>),
      Path(<<Name("getValue")>>, <<>>) }

\* The caller working through handles: init(10) on the root proxy, then
\* the methods of whatever handle it received; it also sends two paths that
\* start with a namespace id it made up.
HandleScriptRootPaths ==
    { Path(<<Name("init")>>, <<Num(10)>>),
      Path(<<Prefixed("0"), Name("getValue")>>, <<>>),
      Path(<<Prefixed("1"), Name("getValue")>>, <<>>) }

HandleScriptPaths ==
    { Path(<<Name("multiply")>>, <<Num(5)>>),
      Path(<<Name("createInner")>>, <<>>),
      Path(<<Name("getValue")>>, <<>>),
      Path(<<Name("init")>>, <<Num(10)>>) }

\* What A calls on B, and B on A, when both ends expose and call
DuplexPaths ==
    { Path(<<Name("sub")>>, <<Num(2), Num(1)>>),
      Path(<<Name("delayed")>>, <<Num(5)>>) }
BackPaths ==
    { Path(<<Name("ping")>>, <<>>),
      Path(<<Name("nope")>>, <<>>) }

\* The calls of a caller whose channel also carries other messages
StrayScriptPaths ==
    { Path(<<Name("sub")>>, <<Num(2), Num(1)>>),
      Path(<<Name("delayed")>>, <<Num(1)>>),
      Path(<<Name("fail")>>, <<>>) }

\* A caller that names members every object inherits
InheritedPaths ==
    { Path(<<Name("toString")>>, <<>>),
      Path(<<Name("constructor")>>, <<>>),
      Path(<<Name("math"), Name("toString")>>, <<>>),
      Path(<<Name("delayed")>>, <<Num(1)>>),
      Path(<<Name("init")>>, <<Num(2)>>) }

\* The paths the caller's program tries on a Commander with this prefix
Repertoire(prefix) ==
    IF script = "handles"
    THEN (IF prefix = <<>> THEN HandleScriptRootPaths ELSE HandleScriptPaths)
    ELSE IF script = "inherited"
    THEN (IF prefix = <<>> THEN InheritedPaths ELSE {Path(<<Name("toString")>>, <<>>)})
    ELSE IF script = "duplex" THEN DuplexPaths
    ELSE IF script \in {"stray", "abort", "exposeAbort", "channel", "siblings"}
    THEN StrayScriptPaths
    ELSE (IF prefix = <<>> THEN RootPaths ELSE HandlePaths)

\* How many calls the caller's program makes at most
CallLimit == IF script = "handles" THEN MaxChain ELSE MaxCalls

\* What the promise a call returned to the caller holds: the registry
\* promise's value passed through the then-callback, or the rejection.
Promised(c) ==
    IF calls[c].state = "resolved" /\ ~responder THEN ThenResult(calls[c].value)
    ELSE calls[c].value

\* The Commanders the caller holds: the root proxy (0) and, for each call
\* whose promise resolved to a Commander, that one (named by the call).
Holders == {0} \cup {c \in DOMAIN calls : calls[c].state = "resolved"
                                            /\ Promised(c).t = "commander"}
PrefixOf(via) == IF via = 0 THEN <<>> ELSE Promised(via).p

(***************************************************************************)
(* Actions.                                                                *)
(***************************************************************************)
\* A: a proxy is applied.  The apply trap hands the topics its closure
\* holds and the arguments to createRpcCommander's callback, which prepends
\* the prefix of the Commander named by `via` and sends the request.
\* `names` are the names the caller accessed.
SendCall(via, names, topics, args) ==
    /\ Len(calls) < CallLimit
    /\ LET fullTopics == PrefixOf(via) \o topics
           registered == register(promiseRegistry, Len(calls) + 1)
       IN  /\ promiseRegistry' = registered.registry
           /\ calls' = Append(calls, Call(fullTopics, args, registered.id, via, names))
           /\ toExposer' = Append(toExposer,
                  Wire(flavor, RequestCreate(registered.id, fullTopics, args)))
    /\ UNCHANGED <<flavor, script, proxies, responder, peer, back, extraction, signal, messenger, exposed, stray, foreign, lastHeard, uncaught,
                   toRequester, exposerVars, sibling>>

\* A: proxy.a.b(...args) on the Commander named by `via`, in one go
IssueCall(via, path) == SendCall(via, path.topics, path.topics, path.args)

\* B: the reply for task t is handed to the channel
SendReply(t, reply) ==
    /\ sent' = Append(sent, [task |-> t, message |-> reply.message])
    /\ toRequester' = Append(toRequester, Wire(flavor, reply.message))
    /\ namespaceHandlers' = reply.handlers
    /\ handleNamespaceCounter' = [handleNamespaceCounter EXCEPT ![CounterOf(flavor)] = reply.counter]

\* A faulty variant of the listener's checks: a request that arrives while a
\* method is still running is not taken up.
AcceptsWhenIdle(data) ==
    /\ RequestValidate(data) /\ (responder \/ RPCPayloadValidate(data))
    /\ \A t \in DOMAIN tasks : tasks[t].state # "running"

\* A faulty variant of the listener's checks: every message is taken up.
AcceptsAnything(data) == TRUE

\* B: the checks the listener makes before it does anything:
\* RequestShape.validate(data), and in expose
\* RPCPayloadShape.validate(data.payload)
Accepts(data) == RequestValidate(data) /\ (responder \/ RPCPayloadValidate(data))

\* B: the message listener of expose takes a message from the channel.  A
\* synchronous method is answered in the same turn (its continuation is a
\* microtask); an asynchronous one leaves a running task.
ExposeListener(data) ==
    LET t == Len(tasks) + 1
        did == IF responder
               THEN (IF RPCPayloadValidate(data)
                     THEN ResponderCallback(exposed, namespaceHandlers, data.topics, data.args)
                     ELSE \* the callback falls through and returns undefined
                          Dispatched(Called(FALSE, Undefined, Undefined, data.args,
                                            Outcome("none", Undefined)),
                                     Outcome("return", Undefined)))
               ELSE Dispatch(exposed, namespaceHandlers, data.topics, data.args)
        sync == did.awaited.mode \in {"return", "throw"}
        reply == IF responder
                 THEN ResponderReply(data, did.awaited, namespaceHandlers,
                                     handleNamespaceCounter[CounterOf(flavor)])
                 ELSE Reply(data, did.awaited, namespaceHandlers,
                            handleNamespaceCounter[CounterOf(flavor)])
    IN  IF listening /\ Accepts(data)
        THEN /\ tasks' = Append(tasks, [request |-> data, call |-> did.call,
                                        awaited |-> did.awaited, at |-> Len(sent),
                                        state |-> IF sync THEN "done" ELSE "running"])
             /\ invoked' = IF did.call.invoked
                           THEN Append(invoked, [task |-> t, fn |-> did.call.fn,
                                                 this |-> did.call.this,
                                                 args |-> did.call.args])
                           ELSE invoked
             /\ listening' = ListeningAfter(listening, did.awaited)
             /\ IF sync THEN SendReply(t, reply)
                ELSE UNCHANGED <<sent, toRequester, namespaceHandlers, handleNamespaceCounter>>
        ELSE UNCHANGED <<tasks, invoked, sent, toRequester, namespaceHandlers,
                         handleNamespaceCounter, listening>>

\* A faulty variant: the listener stays attached when the signal fires.
ExposeDeliversAlways(data) == ExposeListener(data)

\* B: a message event is dispatched on B's messenger.  expose added its
\* listener with { signal }: once the signal has fired the listener is
\* removed and the event reaches nothing.
ExposeDelivers(data) ==
    IF exposeSignal.aborted
    THEN UNCHANGED <<tasks, invoked, sent, toRequester, namespaceHandlers,
                     handleNamespaceCounter, listening>>
    ELSE ExposeListener(data)

\* B: a message sent by A arrives
ExposeOnMessage ==
    /\ toExposer # <<>>
    /\ toExposer' = Tail(toExposer)
    /\ ExposeDelivers(parseData(Head(toExposer)))
    /\ UNCHANGED <<flavor, script, proxies, responder, peer, back, extraction, signal, messenger, exposed, stray, requesterVars, uncaught, exposeSignal>>

\* B: the promise an asynchronous method returned settles; the listener
\* resumes after its await and replies.
MethodSettles(t) ==
    /\ t \in DOMAIN tasks
    /\ tasks[t].state = "running"
    /\ tasks' = [tasks EXCEPT ![t].state = "done"]
    /\ SendReply(t, IF responder
                    THEN ResponderReply(tasks[t].request, tasks[t].awaited,
                                        namespaceHandlers,
                              handleNamespaceCounter[CounterOf(flavor)])
                    ELSE Reply(tasks[t].request, tasks[t].awaited,
                               namespaceHandlers,
                              handleNamespaceCounter[CounterOf(flavor)]))
    /\ listening' = ListeningAfter(listening, tasks[t].awaited)
    /\ UNCHANGED <<flavor, script, proxies, responder, peer, back, extraction, signal, messenger, exposed, stray, requesterVars, uncaught, toExposer, invoked, exposeSignal>>

\* A: the listener of createRequester runs on `data`
RequesterListener(data) ==
    LET after == OnReply(promiseRegistry, calls, data)
    IN  /\ promiseRegistry' = after.registry
        /\ calls' = after.calls
        /\ lastHeard' = [data |-> data, known |-> data.id \in promiseRegistry.ids]
        /\ uncaught' = IF after.threw THEN uncaught \cup {"requester"} ELSE uncaught

\* A faulty variant: the listener stays attached when the signal fires.
RequesterDeliversAlways(data) == RequesterListener(data)

\* A: a message event is dispatched on A's messenger.  The listener was
\* added with { signal }: once the signal has fired it is removed and the
\* event reaches nothing.
RequesterDelivers(data) ==
    IF signal.aborted
    THEN UNCHANGED <<promiseRegistry, calls, lastHeard, uncaught>>
    ELSE RequesterListener(data)

\* A: a reply sent by B arrives
RequesterOnMessage ==
    /\ toRequester # <<>>
    /\ toRequester' = Tail(toRequester)
    /\ RequesterDelivers(parseData(Head(toRequester)))
    /\ UNCHANGED <<flavor, script, proxies, responder, peer, back, extraction, signal, messenger, exposed, stray, foreign, toExposer, exposerVars, sibling>>

\* A: a Response or Error envelope that answers no request of this run (a
\* duplicate, a stale reply, another party on a shared channel) arrives
ForeignEnvelopes ==
    { Envelope(kind, id, FALSE, <<>>, <<>>, Num(99)) :
          kind \in {"response", "error"}, id \in FirstId .. FirstId + MaxCalls }

ForeignReply(data) ==
    /\ foreign < MaxForeign
    /\ foreign' = foreign + 1
    /\ RequesterDelivers(parseData(Wire(flavor, data)))
    /\ UNCHANGED <<flavor, script, proxies, responder, peer, back, extraction, signal, messenger, exposed, stray, toExposer, toRequester, exposerVars, sibling>>

Next ==
    \/ \E via \in Holders :
         \E path \in Repertoire(PrefixOf(via)) :
           IssueCall(via, path)
    \/ ExposeOnMessage
    \/ \E t \in DOMAIN tasks : MethodSettles(t)
    \/ RequesterOnMessage
    \/ \E data \in ForeignEnvelopes : ForeignReply(data)

Spec == Init /\ [][Next]_vars
SpecResponder == InitResponder /\ [][Next]_vars

\* The caller names inherited members of the exposed objects
InitInherited ==
    /\ flavor \in {"port", "socket"}
    /\ script = "inherited"
    /\ responder = FALSE
    /\ peer = Exposer(flavor)
    /\ extraction = Extraction(<<>>)
    /\ InitCommon

SpecInherited == InitInherited /\ [][Next]_vars

\* The handle script calls no asynchronous method: no task is left running.
NextHandles ==
    \/ \E via \in Holders :
         \E path \in Repertoire(PrefixOf(via)) :
           IssueCall(via, path)
    \/ ExposeOnMessage
    \/ RequesterOnMessage
    \/ \E data \in ForeignEnvelopes : ForeignReply(data)

SpecHandles == InitHandles /\ [][NextHandles]_vars

\* The caller builds its calls one property access at a time.
InitCommander ==
    /\ flavor \in {"port", "socket"}
    /\ script = "commander"
    /\ responder = FALSE
    /\ peer = Exposer(flavor)
    /\ extraction = Extraction(<<>>)
    /\ InitCommon

\* The names the caller accesses and the argument lists it applies
AccessNames == {Name("math"), Name("delayed"), Name("then")}
ApplyArgs == {<<>>, <<Num(2), Num(1)>>}

\* A: proxy[name] on the proxy numbered p
GetProperty(p, name) ==
    /\ Len(proxies) < 1 + MaxProxies
    /\ proxies[p].live
    /\ LET got == CommanderGet(proxies[p].topics, name)
       IN  proxies' = Append([proxies EXCEPT ![p].topics = got.parent],
                             Proxy(Append(proxies[p].accessed, name), got.child, got.live))
    /\ UNCHANGED <<flavor, script, responder, peer, back, extraction, signal, messenger, exposed, stray, requesterVars, uncaught, toExposer,
                   toRequester, exposerVars>>

\* A: proxy(...args) on the proxy numbered p
ApplyProxy(p, args) ==
    /\ proxies[p].live
    /\ SendCall(0, proxies[p].accessed, proxies[p].topics, args)

NextCommander ==
    \/ \E p \in DOMAIN proxies : \E name \in AccessNames : GetProperty(p, name)
    \/ \E p \in DOMAIN proxies : \E args \in ApplyArgs : ApplyProxy(p, args)
    \/ ExposeOnMessage
    \/ \E t \in DOMAIN tasks : MethodSettles(t)
    \/ RequesterOnMessage

SpecCommander == InitCommander /\ [][NextCommander]_vars

\* Both ends expose and both call, over the one channel.
InitDuplex ==
    /\ flavor \in {"port", "socket"}
    /\ script = "duplex"
    /\ responder = FALSE
    /\ peer = Exposer(flavor)
    /\ extraction = Extraction(<<>>)
    /\ InitCommon

\* B: its proxy is applied; the request travels on the channel B -> A
BackIssueCall(path) ==
    /\ Len(back.calls) < MaxBackCalls
    /\ LET registered == register(back.promiseRegistry, Len(back.calls) + 1)
       IN  /\ back' = [back EXCEPT !.promiseRegistry = registered.registry,
                                   !.calls = Append(@, Call(path.topics, path.args,
                                                            registered.id, 0, path.topics))]
           /\ toRequester' = Append(toRequester,
                  Wire(flavor, RequestCreate(registered.id, path.topics, path.args)))
    /\ UNCHANGED <<flavor, script, proxies, responder, peer, extraction, signal, messenger, exposed, stray, requesterVars, uncaught,
                   toExposer, exposerVars>>

\* B: a message sent by A arrives and is handed to both listeners attached
\* at B, the one of expose and the one of B's requester
EndBOnMessage ==
    /\ toExposer # <<>>
    /\ toExposer' = Tail(toExposer)
    /\ LET data == parseData(Head(toExposer))
           after == OnReply(back.promiseRegistry, back.calls, data)
       IN  /\ ExposeListener(data)
           /\ back' = [back EXCEPT !.promiseRegistry = after.registry,
                                   !.calls = after.calls]
    /\ UNCHANGED <<flavor, script, proxies, responder, peer, extraction, signal, messenger, exposed, stray, requesterVars, uncaught, exposeSignal>>

\* A: a message sent by B arrives and is handed to both listeners attached
\* at A, the one of A's requester and the one of expose.  The object A
\* exposes has synchronous methods only: the reply goes out in the same turn.
EndAOnMessage ==
    /\ toRequester # <<>>
    /\ toRequester' = Tail(toRequester)
    /\ LET data == parseData(Head(toRequester))
           did == Dispatch(RootA, back.namespaceHandlers, data.topics, data.args)
           reply == Reply(data, did.awaited, back.namespaceHandlers, 0)
           t == Len(back.tasks) + 1
       IN  /\ RequesterListener(data)
           /\ IF RequestValidate(data) /\ RPCPayloadValidate(data)
              THEN /\ back' = [back EXCEPT
                          !.tasks = Append(@, [request |-> data, call |-> did.call,
                                               awaited |-> did.awaited,
                                               at |-> Len(back.sent), state |-> "done"]),
                          !.invoked = IF did.call.invoked
                                      THEN Append(@, [task |-> t, fn |-> did.call.fn,
                                                      this |-> did.call.this,
                                                      args |-> did.call.args])
                                      ELSE @,
                          !.sent = Append(@, [task |-> t, message |-> reply.message]),
                          !.namespaceHandlers = reply.handlers]
                   /\ toExposer' = Append(toExposer, Wire(flavor, reply.message))
              ELSE UNCHANGED <<back, toExposer>>
    /\ UNCHANGED <<flavor, script, proxies, responder, peer, extraction, signal, messenger, exposed, stray, foreign, exposerVars, sibling>>

NextDuplex ==
    \/ \E path \in Repertoire(<<>>) : IssueCall(0, path)
    \/ \E path \in BackPaths : BackIssueCall(path)
    \/ EndBOnMessage
    \/ EndAOnMessage
    \/ \E t \in DOMAIN tasks : MethodSettles(t)

SpecDuplex == InitDuplex /\ [][NextDuplex]_vars

\* The argument trees tried on extractTransferables
Leaves ==
    { Number(3), transfer(Buffer(1)), transfer(Buffer(2)), Buffer(3), Function(1),
      Instance(<<transfer(Buffer(2))>>), transfer(Array(<<transfer(Buffer(2))>>)) }
SeqsUpTo(S, n) == UNION {[1..k -> S] : k \in 0..n}
RECURSIVE Trees(_)
Trees(depth) ==
    IF depth = 0 THEN Leaves
    ELSE Leaves \cup {Array(kids) : kids \in SeqsUpTo(Trees(depth - 1), MaxWidth)}
                \cup {Record(kids) : kids \in SeqsUpTo(Trees(depth - 1), MaxWidth)}

InitExtract ==
    /\ flavor = "port"
    /\ script = "any"
    /\ responder = FALSE
    /\ peer = Exposer(flavor)
    /\ extraction \in {Extraction(<<tree>>) : tree \in Trees(MaxDepth)}
    /\ InitCommon

\* extractTransferables(args) is called
ExtractTransferables ==
    /\ ~extraction.done
    /\ extraction' = [extraction EXCEPT !.done = TRUE,
                                        !.result = extractTransferables(extraction.args),
                                        !.identity = extractIdentity(extraction.args)]
    /\ UNCHANGED <<flavor, script, proxies, responder, peer, back, stray, signal,
                   messenger, exposed, requesterVars, uncaught, toExposer, toRequester,
                   exposerVars>>

NextExtract == ExtractTransferables

SpecExtract == InitExtract /\ [][NextExtract]_vars

\* B's process runs a second exposing endpoint, of either flavor.
InitProcess ==
    /\ flavor \in {"port", "socket"}
    /\ script = "handles"
    /\ responder = FALSE
    /\ peer \in {Exposer(transport) : transport \in {"port", "socket"}}
    /\ extraction = Extraction(<<>>)
    /\ InitCommon

\* What the second endpoint is asked: init(10), or multiply(5) through a
\* namespace id that endpoint B has issued.
PeerRequests(id) ==
    {RequestCreate(id, <<Name("init")>>, <<Num(10)>>)}
    \cup {RequestCreate(id, <<e.key, Name("multiply")>>, <<Num(5)>>) :
              e \in {f \in namespaceHandlers : f.key = Prefixed("0")}}

\* The second endpoint's listener answers a request (both methods are
\* synchronous): it dispatches against its own namespaceHandlers, and
\* processResult mints a namespace id for a marker from the counter of the
\* module that endpoint's expose belongs to.
PeerExposeOnMessage ==
    /\ Len(peer.sent) < MaxPeerHandles
    /\ \E request \in PeerRequests(FirstId + Len(peer.sent)) :
         LET did == Dispatch(Root, peer.namespaceHandlers, request.topics, request.args)
             reply == Reply(request, did.awaited, peer.namespaceHandlers,
                            handleNamespaceCounter[CounterOf(peer.flavor)])
         IN  /\ peer' = [peer EXCEPT !.namespaceHandlers = reply.handlers,
                                     !.heard = Append(@, request),
                                     !.sent = Append(@, reply.message),
                                     !.invoked = IF did.call.invoked
                                                 THEN Append(@, [request |-> Len(peer.heard) + 1,
                                                                 fn |-> did.call.fn,
                                                                 this |-> did.call.this])
                                                 ELSE @]
             /\ handleNamespaceCounter' =
                    [handleNamespaceCounter EXCEPT ![CounterOf(peer.flavor)] = reply.counter]
    /\ UNCHANGED <<flavor, script, proxies, responder, back, extraction, signal, messenger, exposed, stray, requesterVars, uncaught,
                   toExposer, toRequester,
                   listening, namespaceHandlers, tasks, invoked, sent, exposeSignal>>

NextProcess == NextHandles \/ PeerExposeOnMessage

SpecProcess == InitProcess /\ [][NextProcess]_vars

\* A channel that also carries messages that are no Request: an arbitrary
\* object, a Response and an Error envelope (with an id the caller uses).
StrayMessages ==
    { NoEnvelope,
      Envelope("response", FirstId, FALSE, <<>>, <<>>, Num(99)),
      Envelope("error", FirstId, FALSE, <<>>, <<>>, Num(99)) }

InitStray ==
    /\ flavor \in {"port", "socket"}
    /\ script = "stray"
    /\ responder \in {r \in BOOLEAN : r => flavor = "port"}
    /\ peer = Exposer(flavor)
    /\ extraction = Extraction(<<>>)
    /\ InitCommon

\* B: a message that is no Request arrives at the exposing endpoint
StrayMessage(data) ==
    /\ data \notin stray
    /\ stray' = stray \cup {data}
    /\ ExposeListener(parseData(Wire(flavor, data)))
    /\ UNCHANGED <<flavor, script, proxies, responder, peer, back, extraction, signal, messenger, exposed,
                   requesterVars, uncaught, toExposer, exposeSignal>>

NextStray ==
    \/ \E path \in Repertoire(<<>>) : IssueCall(0, path)
    \/ ExposeOnMessage
    \/ \E t \in DOMAIN tasks : MethodSettles(t)
    \/ RequesterOnMessage
    \/ \E data \in StrayMessages : StrayMessage(data)

SpecStray == InitStray /\ [][NextStray]_vars

(***************************************************************************)
(* The socket flavor's listeners run on the raw text of a message: the     *)
(* outer try/catch of websocket/index.ts around parseData.                 *)
(***************************************************************************)
\* A faulty variant: the text that does not parse is answered like a failed
\* dispatch, with an Error envelope.
ExposeSocketListenerSurfacing(message) ==
    IF parseThrows(message)
    THEN /\ sent' = Append(sent, [task |-> 0,
                                  message |-> ErrorCreate(NoEnvelope, ErrorObj("SyntaxError", <<>>))])
         /\ toRequester' = Append(toRequester,
                Wire(flavor, ErrorCreate(NoEnvelope, ErrorObj("SyntaxError", <<>>))))
         /\ UNCHANGED <<tasks, invoked, namespaceHandlers, handleNamespaceCounter, listening>>
    ELSE ExposeListener(parseData(message))

\* B: the listener of the websocket expose on a raw message
ExposeSocketListener(message) ==
    IF parseThrows(message)
    THEN \* catch (error) { console.error(error) }
         UNCHANGED <<tasks, invoked, sent, toRequester, namespaceHandlers,
                     handleNamespaceCounter, listening>>
    ELSE ExposeListener(parseData(message))

\* A: the listener of the websocket createRequester on a raw message
RequesterSocketListener(message) ==
    IF parseThrows(message)
    THEN /\ lastHeard' = [data |-> message.data, known |-> FALSE]
         /\ UNCHANGED <<promiseRegistry, calls, uncaught>>
    ELSE RequesterListener(parseData(message))

InitMalformed ==
    /\ flavor = "socket"
    /\ script = "stray"
    /\ responder = FALSE
    /\ peer = Exposer(flavor)
    /\ extraction = Extraction(<<>>)
    /\ InitCommon

\* The text that did not parse, noted with the number of requests taken up
\* before it arrived
MalformedHeard(n) == [Unparsable EXCEPT !.id = n]

\* B: a text that is no JSON arrives at the exposing endpoint
MalformedAtExposer ==
    /\ stray = {}
    /\ stray' = {MalformedHeard(Len(tasks))}
    /\ ExposeSocketListener(MalformedText)
    /\ UNCHANGED <<flavor, script, proxies, responder, peer, back, extraction, signal, messenger, exposed,
                   requesterVars, uncaught, toExposer, exposeSignal>>

\* A: a text that is no JSON arrives at the calling endpoint
MalformedAtRequester ==
    /\ foreign < MaxForeign
    /\ foreign' = foreign + 1
    /\ RequesterSocketListener(MalformedText)
    /\ UNCHANGED <<flavor, script, proxies, responder, peer, back, extraction, signal, messenger, exposed, stray,
                   toExposer, toRequester, exposerVars, sibling>>

NextMalformed ==
    \/ \E path \in Repertoire(<<>>) : IssueCall(0, path)
    \/ ExposeOnMessage
    \/ \E t \in DOMAIN tasks : MethodSettles(t)
    \/ RequesterOnMessage
    \/ MalformedAtExposer
    \/ MalformedAtRequester

SpecMalformed == InitMalformed /\ [][NextMalformed]_vars

(***************************************************************************)
(* The abort signal of a requester on a message port (the websocket        *)
(* createRequester takes no signal).                                       *)
(***************************************************************************)
InitAbort ==
    /\ flavor = "port"
    /\ script = "abort"
    /\ responder = FALSE
    /\ peer = Exposer(flavor)
    /\ extraction = Extraction(<<>>)
    /\ InitCommon

\* A: the caller's AbortController aborts
Abort ==
    /\ ~signal.aborted
    /\ signal' = Signal(TRUE, Len(calls))
    /\ UNCHANGED <<flavor, script, proxies, responder, peer, back, extraction, stray,
                   messenger, exposed, requesterVars, uncaught, toExposer, toRequester,
                   exposerVars>>

NextAbort ==
    \/ \E path \in Repertoire(<<>>) : IssueCall(0, path)
    \/ ExposeOnMessage
    \/ \E t \in DOMAIN tasks : MethodSettles(t)
    \/ RequesterOnMessage
    \/ \E data \in ForeignEnvelopes : ForeignReply(data)
    \/ Abort

SpecAbort == InitAbort /\ [][NextAbort]_vars

(***************************************************************************)
(* A messenger whose postMessage / send does not always just queue the     *)
(* request: it may answer before it returns, or throw.                     *)
(***************************************************************************)
Channels ==
    { Channel("queues", "none", Undefined),
      Channel("echoes", "response", Num(7)),
      Channel("echoes", "error", Str("refused")),
      Channel("throws", "none", Undefined) }

InitChannel ==
    /\ flavor \in {"port", "socket"}
    /\ script = "channel"
    /\ responder = FALSE
    /\ peer = Exposer(flavor)
    /\ extraction = Extraction(<<>>)
    /\ InitCommon

\* A: a method is called on the root proxy while the messenger behaves as
\* `channel` says
IssueOn(channel, path) ==
    /\ Len(calls) < CallLimit
    /\ LET did == send(promiseRegistry, calls, flavor, path.topics, path.args, channel)
       IN  /\ promiseRegistry' = did.registry
           /\ calls' = did.calls
           /\ toExposer' = toExposer \o did.posted
           /\ lastHeard' = IF did.heard = <<>> THEN lastHeard
                           ELSE [data |-> did.heard[1], known |-> did.known]
    /\ UNCHANGED <<flavor, script, proxies, responder, peer, back, extraction, signal, messenger,
                   exposed, stray, foreign, sibling, uncaught, toRequester, exposerVars>>

NextChannel ==
    \/ \E channel \in Channels : \E path \in Repertoire(<<>>) : IssueOn(channel, path)
    \/ ExposeOnMessage
    \/ \E t \in DOMAIN tasks : MethodSettles(t)
    \/ RequesterOnMessage

SpecChannel == InitChannel /\ [][NextChannel]_vars

(***************************************************************************)
(* Two requesters on one messenger: rpc(messenger) called twice.  Each     *)
(* createRequester makes a promiseRegistry of its own and adds a message   *)
(* listener of its own to the same messenger, so every message event runs  *)
(* both listeners.                                                         *)
(***************************************************************************)
\* What the second proxy's program calls (no call of the first proxy's)
SiblingPaths ==
    { Path(<<Name("sub")>>, <<Num(5), Num(3)>>),
      Path(<<Name("delayed")>>, <<Num(5)>>) }

InitSiblings ==
    /\ flavor \in {"port", "socket"}
    /\ script = "siblings"
    /\ responder = FALSE
    /\ peer = Exposer(flavor)
    /\ extraction = Extraction(<<>>)
    /\ InitCommon

\* A: a method is called on the second proxy
SiblingIssueCall(path) ==
    /\ Len(sibling.calls) < MaxCalls
    /\ LET did == send(sibling.promiseRegistry, sibling.calls, flavor, path.topics, path.args,
                       Channel("queues", "none", Undefined))
       IN  /\ sibling' = [promiseRegistry |-> did.registry, calls |-> did.calls]
           /\ toExposer' = toExposer \o did.posted
    /\ UNCHANGED <<flavor, script, proxies, responder, peer, back, extraction, signal, messenger,
                   exposed, stray, promiseRegistry, calls, foreign, lastHeard, uncaught,
                   toRequester, exposerVars>>

\* A: a reply sent by B arrives; the message event runs the listener of
\* each of the two requesters
SiblingsOnMessage ==
    /\ toRequester # <<>>
    /\ toRequester' = Tail(toRequester)
    /\ RequesterDelivers(parseData(Head(toRequester)))
    /\ LET after == OnReply(sibling.promiseRegistry, sibling.calls, parseData(Head(toRequester)))
       IN  sibling' = [promiseRegistry |-> after.registry, calls |-> after.calls]
    /\ UNCHANGED <<flavor, script, proxies, responder, peer, back, extraction, signal, messenger,
                   exposed, stray, foreign, toExposer, exposerVars>>

NextSiblings ==
    \/ \E path \in Repertoire(<<>>) : IssueCall(0, path)
    \/ \E path \in SiblingPaths : SiblingIssueCall(path)
    \/ ExposeOnMessage
    \/ \E t \in DOMAIN tasks : MethodSettles(t)
    \/ SiblingsOnMessage

SpecSiblings == InitSiblings /\ [][NextSiblings]_vars

(***************************************************************************)
(* The abort signal of an exposing endpoint on a message port (expose of   *)
(* messenger.ts; the websocket expose takes no signal).                    *)
(***************************************************************************)
InitExposeAbort ==
    /\ flavor = "port"
    /\ script = "exposeAbort"
    /\ responder = FALSE
    /\ peer = Exposer(flavor)
    /\ extraction = Extraction(<<>>)
    /\ InitCommon

\* B: the AbortController whose signal was given to expose aborts; the
\* signal notes how many replies had been sent before
AbortExpose ==
    /\ ~exposeSignal.aborted
    /\ exposeSignal' = Signal(TRUE, Len(sent))
    /\ UNCHANGED <<flavor, script, proxies, responder, peer, back, extraction, signal, stray,
                   messenger, exposed, requesterVars, uncaught, toExposer, toRequester,
                   listening, namespaceHandlers, handleNamespaceCounter, tasks, invoked, sent>>

NextExposeAbort ==
    \/ \E path \in Repertoire(<<>>) : IssueCall(0, path)
    \/ ExposeOnMessage
    \/ \E t \in DOMAIN tasks : MethodSettles(t)
    \/ RequesterOnMessage
    \/ AbortExpose

SpecExposeAbort == InitExposeAbort /\ [][NextExposeAbort]_vars

(***************************************************************************)
(* The adapters of messenger.ts on their target: rpc (createRequester),    *)
(* expose and createResponder attach a message listener, start the target  *)
(* when it can be started, and send through usePostMessage.                *)
(***************************************************************************)
\* A call made on the target by adapter `by`: the method, the names of the
\* positional arguments in order, and the values of those that matter here.
Made(method, by, args, message, origin, transferList) ==
    [method |-> method, by |-> by, args |-> args, message |-> message,
     origin |-> origin, transfer |-> transferList]

isWindowProxy(target) ==
    target.object /\ target.postMessage = "function" /\ target.closed = "boolean"

\* A faulty variant: the origin argument is never passed.
usePostMessagePlain(target, by, message, transferables) ==
    Made("postMessage", by, <<"message", "transfer">>, message, "", transferables)

\* The call the function returned by usePostMessage(target) makes
usePostMessage(target, by, message, transferables) ==
    IF isWindowProxy(target)
    THEN Made("postMessage", by, <<"message", "targetOrigin", "transfer">>, message, "*",
              transferables)
    ELSE Made("postMessage", by, <<"message", "transfer">>, message, "", transferables)

\* A faulty variant: the target is started before the listener is attached,
\* whether or not it has a start function.
ConstructStartFirst(target, by) ==
    <<Made("start", by, <<>>, NoEnvelope, "", <<>>),
      Made("addEventListener", by, <<"type", "listener", "options">>, NoEnvelope, "", <<>>)>>

\* The calls an adapter makes on its target while it is constructed:
\* addEventListener('message', ...), then
\* if ('start' in messenger) messenger.start?.()
Construct(target, by) ==
    <<Made("addEventListener", by, <<"type", "listener", "options">>, NoEnvelope, "", <<>>)>>
    \o (IF target.start # "absent" /\ target.start = "function"
        THEN <<Made("start", by, <<>>, NoEnvelope, "", <<>>)>>
        ELSE <<>>)

AdapterKinds == {"rpc", "expose", "createResponder"}
Targets ==
    { Target(object, postMessage, closed, start) :
          object \in BOOLEAN, postMessage \in {"function", "undefined"},
          closed \in {"boolean", "undefined"},
          start \in {"function", "undefined", "absent"} }
\* The envelopes and transfer lists handed to postMessage
Outgoing ==
    { RequestCreate(FirstId, <<Name("sub")>>, <<Num(2), Num(1)>>),
      ResponseCreate(RequestCreate(FirstId, <<>>, <<>>), Num(1)),
      ErrorCreate(RequestCreate(FirstId, <<>>, <<>>), ErrorObj("boom", <<>>)) }
TransferLists == {<<>>, <<transfer(Buffer(1))>>}

InitMessenger ==
    /\ flavor = "port"
    /\ script = "any"
    /\ responder = FALSE
    /\ peer = Exposer(flavor)
    /\ extraction = Extraction(<<>>)
    /\ messenger \in Targets
    /\ exposed = Root
    /\ InitEndpoints

\* rpc(target), expose(methods, { to: target }) or
\* createResponder(target, callback) is called
CreateAdapter(kind) ==
    /\ Len(messenger.adapters) < MaxAdapters
    /\ messenger' = [messenger EXCEPT
                         !.adapters = Append(@, kind),
                         !.log = @ \o Construct(messenger, Len(messenger.adapters) + 1)]
    /\ UNCHANGED <<flavor, script, proxies, responder, peer, back, extraction, stray, signal,
                   exposed, requesterVars, uncaught, toExposer, toRequester, exposerVars>>

Posts == {i \in DOMAIN messenger.log : messenger.log[i].method = "postMessage"}

\* Adapter `by` sends an envelope through its postMessage.  On a target
\* whose postMessage is no function the call throws and nothing is sent.
PostMessage(by, message, transferables) ==
    /\ by \in DOMAIN messenger.adapters
    /\ messenger.postMessage = "function"
    /\ Cardinality(Posts) < MaxPosts
    /\ messenger' = [messenger EXCEPT
                         !.log = Append(@, usePostMessage(messenger, by, message, transferables))]
    /\ UNCHANGED <<flavor, script, proxies, responder, peer, back, extraction, stray, signal,
                   exposed, requesterVars, uncaught, toExposer, toRequester, exposerVars>>

NextMessenger ==
    \/ \E kind \in AdapterKinds : CreateAdapter(kind)
    \/ \E by \in 1 .. MaxAdapters, message \in Outgoing, transferables \in TransferLists :
           PostMessage(by, message, transferables)

SpecMessenger == InitMessenger /\ [][NextMessenger]_vars

(***************************************************************************)
(* A factory is given to expose, and Requests are handed to B's listener   *)
(* directly (port._emit of the tests): init Requests and rpc-call          *)
(* Requests, in any order.                                                 *)
(***************************************************************************)
FactoryRequests ==
    { InitRequest(FirstId, <<>>),
      InitRequest(FirstId + 3, <<Str("Welcome")>>),
      RequestCreate(FirstId + 1, <<Name("greet")>>, <<Str("World")>>),
      RequestCreate(FirstId + 2, <<>>, <<>>),
      RequestCreate(FirstId + 4, <<Name("nope")>>, <<>>) }

InitFactory ==
    /\ flavor \in {"port", "socket"}
    /\ script = "factory"
    /\ responder \in {r \in BOOLEAN : r => flavor = "port"}
    /\ peer = Exposer(flavor)
    /\ extraction = Extraction(<<>>)
    /\ messenger = MessagePort
    /\ exposed = Factory
    /\ InitEndpoints

\* B: a Request is handed to the listener
Emit(data) ==
    /\ data \notin stray
    /\ stray' = stray \cup {data}
    /\ ExposeListener(parseData(Wire(flavor, data)))
    /\ UNCHANGED <<flavor, script, proxies, responder, peer, back, extraction, signal,
                   messenger, exposed, requesterVars, uncaught, toExposer, exposeSignal>>

NextFactory == \E data \in FactoryRequests : Emit(data)

SpecFactory == InitFactory /\ [][NextFactory]_vars

(***************************************************************************)
(* Properties.                                                             *)
(***************************************************************************)
\* The envelope as endpoint A reads it after the channel has carried it.
Received(message) == parseData(Wire(flavor, message))
\* The request of call c as endpoint B reads it.
RequestOf(c) == Received(RequestCreate(calls[c].id, calls[c].topics, calls[c].args))
\* The entries of `sent` that answer task t.
RepliesTo(t) == {i \in DOMAIN sent : sent[i].task = t}
\* The listener of createRequester runs on `data` in this step.
Hears(data) ==
    \/ toRequester # <<>> /\ data = parseData(Head(toRequester)) /\ RequesterOnMessage
    \/ data \in ForeignEnvelopes /\ Received(data) = data /\ ForeignReply(data)
Audible == ForeignEnvelopes \cup {parseData(toRequester[i]) : i \in DOMAIN toRequester}
CallWithId(id) == CHOOSE c \in DOMAIN calls : calls[c].id = id

\* C1: every settled call was settled by a reply envelope whose id is the id
\* its own Request carried, with exactly that envelope's payload or error;
\* and a reply endpoint B sent settles only the call whose request B was
\* answering, in whatever order the replies arrive.
C1_SettledByMatchingReply ==
    \A c \in DOMAIN calls :
        calls[c].state # "pending" =>
            /\ calls[c].by.kind \in {"response", "error"}
            /\ calls[c].by.id = calls[c].id
            /\ calls[c].value = calls[c].by.value
            /\ \A i \in DOMAIN sent :
                   Received(sent[i].message) = calls[c].by
                       => tasks[sent[i].task].request = RequestOf(c)

\* Two calls were outstanding together and their replies came back in the
\* reverse of the submission order; both are settled.
C1_Witness ==
    /\ Len(calls) = 2 /\ Len(sent) = 2
    /\ sent[1].task = 2 /\ sent[2].task = 1
    /\ calls[1].state = "resolved" /\ calls[1].by = Received(sent[2].message)
    /\ calls[2].state = "resolved" /\ calls[2].by = Received(sent[1].message)
    /\ calls[1].value # calls[2].value

\* C4: a Response or Error envelope whose id is not registered, when it is
\* delivered, raises no exception, settles no call and leaves the registry
\* as it was.
C4_UnknownIdIsNoOp ==
    [][\A data \in Audible :
           (data.id \notin promiseRegistry.ids /\ Hears(data))
               => UNCHANGED <<promiseRegistry, calls, uncaught>>]_vars

\* An envelope with an unregistered id has been delivered while calls were
\* pending, and they are all still pending and registered.
C4_Witness ==
    /\ lastHeard.data.kind \in {"response", "error"} /\ ~lastHeard.known
    /\ Len(calls) = 2
    /\ \A c \in DOMAIN calls : calls[c].state = "pending"
    /\ promiseRegistry.ids = {calls[c].id : c \in DOMAIN calls}
    /\ uncaught = {}

C6_ErrorRejectsResponseResolves ==
    [][\A data \in Audible :
           (data.id \in promiseRegistry.ids /\ Hears(data))
               => LET c == CallWithId(data.id)
                  IN  /\ calls[c].state = "pending"
                      /\ calls'[c].value = data.value
                      /\ data.kind = "error" => calls'[c].state = "rejected"
                      /\ data.kind = "response" => calls'[c].state = "resolved"]_vars

\* One call was rejected by an Error envelope, the other resolved by a
\* Response whose payload was dropped by the JSON text (undefined).
C6_Witness ==
    /\ flavor = "socket" /\ Len(calls) = 2
    /\ calls[1].state = "rejected" /\ calls[1].by.kind = "error"
    /\ calls[2].state = "resolved" /\ calls[2].by.kind = "response"
    /\ calls[2].value = Undefined

(***************************************************************************)
(* Properties of the exposing side.                                        *)
(***************************************************************************)
Done(t) == tasks[t].state = "done"
\* The calls of exposed functions made for task t.
InvocationsOf(t) == {i \in DOMAIN invoked : invoked[i].task = t}
\* A function was called for task t and it did not raise.
Succeeded(t) == tasks[t].call.invoked /\ tasks[t].call.result.mode \in {"return", "resolve"}
\* A function was called for task t and it threw, or its promise rejected.
Raised(t) == tasks[t].call.invoked /\ tasks[t].call.result.mode \in {"throw", "reject"}
\* The sent envelopes carrying the id of task t's request.
RepliesWithIdOf(t) == {i \in DOMAIN sent : sent[i].message.id = tasks[t].request.id}

\* C2: every request received is taken up, and once its method has ended
\* exactly one envelope with its id has been sent: a Response if the
\* dispatch succeeded, an Error otherwise; none while the method runs.
C2_ExactlyOneReply ==
    /\ Len(tasks) + Len(toExposer) = Len(calls)
    /\ \A t \in DOMAIN tasks :
           IF Done(t)
           THEN /\ Cardinality(RepliesWithIdOf(t)) = 1
                /\ \A i \in RepliesWithIdOf(t) :
                       /\ sent[i].task = t
                       /\ sent[i].message.kind = (IF Succeeded(t) THEN "response" ELSE "error")
           ELSE RepliesWithIdOf(t) = {}

\* One request was answered with a Response and another with an Error.
C2_Witness ==
    \E t, u \in DOMAIN tasks :
        /\ Done(t) /\ Succeeded(t) /\ Done(u) /\ ~Succeeded(u)
        /\ \E i \in RepliesTo(t) : sent[i].message.kind = "response"
        /\ \E i \in RepliesTo(u) : sent[i].message.kind = "error"

\* C3: whatever an exposed method raises, by throwing or by a rejected
\* promise, is answered with an Error envelope carrying the request's id and
\* the raised value, never with a Response, and does not escape the handler.
C3_RaisedBecomesError ==
    \A t \in DOMAIN tasks :
        (Done(t) /\ Raised(t)) =>
            /\ RepliesTo(t) # {}
            /\ \A i \in RepliesTo(t) :
                   sent[i].message = ErrorCreate(tasks[t].request, tasks[t].call.result.value)
            /\ "exposer" \notin uncaught

\* C7: the listener stays attached and takes up every request delivered;
\* a request handled after another one's dispatch failed is answered once,
\* with its own id and its own outcome.
FailedDispatch(u) == Done(u) /\ tasks[u].awaited.mode \in {"throw", "reject"}
C7_AnswersAfterFailure ==
    /\ listening
    /\ Len(tasks) + Len(toExposer) = Len(calls)
    /\ \A t \in DOMAIN tasks :
           (Done(t) /\ \E u \in DOMAIN tasks : u < t /\ FailedDispatch(u)) =>
               /\ Cardinality(RepliesTo(t)) = 1
               /\ \A i \in RepliesTo(t) :
                      /\ sent[i].message.id = tasks[t].request.id
                      /\ Succeeded(t) => sent[i].message.kind = "response"
                      /\ (Succeeded(t) /\ ~isHandleMarker(tasks[t].call.result.value))
                             => sent[i].message.value = tasks[t].call.result.value
                      /\ ~Succeeded(t) => sent[i].message =
                                              ErrorCreate(tasks[t].request, tasks[t].awaited.value)

\* The first request failed in dispatch and the second, handled after it,
\* was answered with the result of its method.
C7_Witness ==
    /\ Len(tasks) = 2
    /\ tasks[1].awaited.mode = "throw" /\ Done(2) /\ Succeeded(2)
    /\ \E i \in RepliesTo(2) : i > 1 /\ sent[i].message.kind = "response"
                                     /\ sent[i].message.value = tasks[2].call.result.value

\* The request of task t names a function of the exposed object: walking
\* its topics from the root ends at a function.
ResolvesFromRoot(t) ==
    /\ Len(tasks[t].request.topics) >= 1
    /\ Reduce(Root, tasks[t].request.topics).t = "function"
\* The first topic of task t's request begins with the reserved prefix.
Namespaced(t) ==
    /\ Len(tasks[t].request.topics) >= 1
    /\ startsWith(tasks[t].request.topics[1], HANDLE_NAMESPACE_PREFIX)

\* C8 as stated: a request whose path resolves to a function has that
\* function invoked exactly once with the request's arguments in order,
\* and the Response carries the value it returned.
C8_Original ==
    \A t \in DOMAIN tasks :
        ResolvesFromRoot(t) =>
            /\ Cardinality(InvocationsOf(t)) = 1
            /\ \A i \in InvocationsOf(t) :
                   /\ invoked[i].fn = Reduce(Root, tasks[t].request.topics)
                   /\ invoked[i].args = tasks[t].request.args
            /\ (Done(t) /\ Succeeded(t)) =>
                   \E i \in RepliesTo(t) :
                       sent[i].message = ResponseCreate(tasks[t].request,
                           Behaviour(Reduce(Root, tasks[t].request.topics),
                                     tasks[t].request.args).value)

\* C8: a request whose path does not start with the reserved prefix and
\* resolves to a function has that function invoked exactly once with the
\* request's arguments in order; the Response carries the returned value,
\* or a handle payload when the returned value is a marker.
C8_InvokedOnceWithArgs ==
    \A t \in DOMAIN tasks :
        (ResolvesFromRoot(t) /\ ~Namespaced(t)) =>
            /\ Cardinality(InvocationsOf(t)) = 1
            /\ \A i \in InvocationsOf(t) :
                   /\ invoked[i].fn = Reduce(Root, tasks[t].request.topics)
                   /\ invoked[i].args = tasks[t].request.args
            /\ (Done(t) /\ Succeeded(t)) =>
                   LET returned == Behaviour(Reduce(Root, tasks[t].request.topics),
                                             tasks[t].request.args).value
                   IN  \E i \in RepliesTo(t) :
                           /\ sent[i].message.kind = "response"
                           /\ sent[i].message.id = tasks[t].request.id
                           /\ IF isHandleMarker(returned)
                              THEN isHandleResponse(sent[i].message.value)
                              ELSE sent[i].message.value = returned

\* A function three topics deep was called with (1, 2) and its difference
\* came back in the Response.
C8_Witness ==
    \E t \in DOMAIN tasks :
        /\ tasks[t].request.topics = <<Name("math"), Name("deep"), Name("sub")>>
        /\ tasks[t].request.args = <<Num(1), Num(2)>>
        /\ \E i \in RepliesTo(t) : sent[i].message.value = Num(-1)

\* What callMethod walks for task t: the whole path from the root, or the
\* rest of the path from the handle's object.
WalkedFrom(t) == IF Namespaced(t) THEN tasks[t].call.this ELSE Root
WalkedPath(t) == IF Namespaced(t) THEN Tail(tasks[t].request.topics) ELSE tasks[t].request.topics
\* The walk of task t started from an object and did not end at a function.
Unresolvable(t) ==
    /\ WalkedFrom(t) # Undefined
    /\ Reduce(WalkedFrom(t), WalkedPath(t)).t # "function"
\* The envelope names the path: its error is the message with that path.
NamesPath(message, path) ==
    /\ message.kind = "error"
    /\ message.value.t = "Error"
    /\ message.value.s = "Topics did not resolve to a function"
    /\ message.value.p = path

\* C9: when the path does not end at a function nothing is invoked, and the
\* caller receives an Error envelope with the request's id whose message
\* names the offending path.
C9_UnresolvedNamesPath ==
    \A t \in DOMAIN tasks :
        Unresolvable(t) =>
            /\ InvocationsOf(t) = {}
            /\ Cardinality(RepliesTo(t)) = 1
            /\ \A i \in RepliesTo(t) :
                   /\ Received(sent[i].message).id = tasks[t].request.id
                   /\ NamesPath(Received(sent[i].message), WalkedPath(t))

\* The same over a message port only.
C9_OnPort == (flavor = "port") => C9_UnresolvedNamesPath

\* A method returned a marker, or its promise resolved to one.
ReturnedMarker(t) == Done(t) /\ Succeeded(t) /\ isHandleMarker(tasks[t].call.result.value)
HandleReplies == {i \in DOMAIN sent : isHandleResponse(sent[i].message.value)}

\* C10: a returned marker is answered with a Response whose payload is a
\* handle with an id under the reserved prefix that no other reply carries,
\* and the registry maps that id to the wrapped object; any other returned
\* value is passed on unchanged and registers nothing.
C10_MarkerBecomesHandle ==
    /\ \A t \in DOMAIN tasks :
           (Done(t) /\ Succeeded(t)) =>
               \A i \in RepliesTo(t) :
                   IF isHandleMarker(tasks[t].call.result.value)
                   THEN LET namespaceId == sent[i].message.value.p[1]
                        IN  /\ sent[i].message.kind = "response"
                            /\ sent[i].message.id = tasks[t].request.id
                            /\ isHandleResponse(sent[i].message.value)
                            /\ startsWith(namespaceId, HANDLE_NAMESPACE_PREFIX)
                            /\ MapHas(namespaceHandlers, namespaceId)
                            /\ MapGet(namespaceHandlers, namespaceId)
                                   = MarkerMethods(tasks[t].call.result.value)
                   ELSE sent[i].message = ResponseCreate(tasks[t].request,
                                                         tasks[t].call.result.value)
    /\ \A i, j \in HandleReplies :
           i # j => sent[i].message.value.p[1] # sent[j].message.value.p[1]
    /\ Cardinality(namespaceHandlers) = Cardinality({t \in DOMAIN tasks : ReturnedMarker(t)})

\* A method reached through a handle returned a marker itself, after the
\* handle's own marker was registered.
C10_Witness ==
    \E t \in DOMAIN tasks :
        /\ Namespaced(t) /\ ReturnedMarker(t)
        /\ Cardinality(HandleReplies) = 2

(***************************************************************************)
(* Properties of remote handles.                                           *)
(***************************************************************************)
\* The handle replies sent before task t was taken up that carry the
\* namespace id its path starts with.
IssuedBefore(t) ==
    {i \in DOMAIN sent : /\ i <= tasks[t].at
                         /\ isHandleResponse(sent[i].message.value)
                         /\ sent[i].message.value.p[1] = tasks[t].request.topics[1]}
\* The object wrapped by the marker that handle reply i answers for.
WrappedBy(i) == MarkerMethods(tasks[sent[i].task].call.result.value)

\* C11: a request whose first topic is a namespace id issued before is
\* resolved with the rest of its path against the object that handle wraps:
\* the function found there is called once on that object with the request's
\* args and its value is the Response's payload; when the rest does not end
\* at a function there, nothing is invoked, whatever the root holds.
C11_ResolvedAgainstHandle ==
    \A t \in DOMAIN tasks :
        Namespaced(t) =>
            \A h \in IssuedBefore(t) :
                LET target == Reduce(WrappedBy(h), Tail(tasks[t].request.topics))
                IN  IF target.t = "function"
                    THEN /\ Cardinality(InvocationsOf(t)) = 1
                         /\ \A i \in InvocationsOf(t) :
                                /\ invoked[i].fn = target
                                /\ invoked[i].this = WrappedBy(h)
                                /\ invoked[i].args = tasks[t].request.args
                         /\ (Done(t) /\ ~isHandleMarker(Behaviour(target, tasks[t].request.args).value)) =>
                                \E i \in RepliesTo(t) :
                                    sent[i].message = ResponseCreate(tasks[t].request,
                                        Behaviour(target, tasks[t].request.args).value)
                    ELSE InvocationsOf(t) = {}

\* [namespaceId, "getValue"] with empty args, on a handle wrapping an object
\* whose getValue returns 42, was answered with a Response carrying 42.
C11_Witness ==
    \E t \in DOMAIN tasks :
        /\ Namespaced(t) /\ IssuedBefore(t) # {}
        /\ Tail(tasks[t].request.topics) = <<Name("getValue")>>
        /\ tasks[t].request.args = <<>>
        /\ \E i \in RepliesTo(t) : /\ sent[i].message.kind = "response"
                                   /\ sent[i].message.value = Num(42)

\* The envelope mentions the unknown reference: its error is the message
\* quoting that namespace id.
MentionsNamespace(message, namespaceId) ==
    /\ message.kind = "error"
    /\ message.value.t = "Error"
    /\ message.value.s = "Unknown namespace"
    /\ message.value.p = <<namespaceId>>

\* C12: a request whose first topic has the reserved prefix but was never
\* issued invokes nothing and is answered once, with an Error envelope that
\* carries the request's id and mentions the unknown reference; the
\* listener stays attached.
C12_UnknownNamespace ==
    /\ listening
    /\ \A t \in DOMAIN tasks :
           (Namespaced(t) /\ IssuedBefore(t) = {}) =>
               /\ InvocationsOf(t) = {}
               /\ Cardinality(RepliesTo(t)) = 1
               /\ \A i \in RepliesTo(t) :
                      /\ Received(sent[i].message).id = tasks[t].request.id
                      /\ MentionsNamespace(Received(sent[i].message), tasks[t].request.topics[1])

\* The same over a message port only.
C12_OnPort == (flavor = "port") => C12_UnknownNamespace

\* The namespace ids issued in B's process: by endpoint B and by the
\* second endpoint, each with who issued it and in which reply.
IssuedInProcess ==
    {[by |-> "B", reply |-> i, id |-> sent[i].message.value.p[1]] : i \in HandleReplies}
    \cup {[by |-> "peer", reply |-> i, id |-> peer.sent[i].value.p[1]] :
              i \in {j \in DOMAIN peer.sent : isHandleResponse(peer.sent[j].value)}}

\* C13: no two handles issued in one process carry the same namespace id,
\* whichever endpoint and flavor issued them.
C13_ProcessWideUnique ==
    \A a, b \in IssuedInProcess : a # b => a.id # b.id

\* The same when both endpoints are of the same flavor.
C13_SameFlavor == (peer.flavor = flavor) => C13_ProcessWideUnique

\* No counter ever decreases.
C13_OnlyIncrements ==
    [][\A module \in CounterModules :
           handleNamespaceCounter'[module] >= handleNamespaceCounter[module]]_vars

\* The tasks in which endpoint B took up the request of call d.
TasksOf(d) == {t \in DOMAIN tasks : tasks[t].request.id = calls[d].id}

\* Call d was settled by the reply endpoint B sent for its request.
AnsweredByExposer(d) ==
    \E t \in TasksOf(d) : \E i \in RepliesTo(t) : Received(sent[i].message) = calls[d].by

\* C14: a call answered with a handle payload resolves to a Commander;
\* every call made through that Commander sends the handle's namespace id
\* followed by the accessed names; and init(10) followed by multiply(5) on
\* the Commander it gave resolves to 50.
C14_HandleBecomesCommander ==
    /\ \A c \in DOMAIN calls :
           (calls[c].state = "resolved" /\ isHandleResponse(calls[c].by.value)) =>
               Promised(c) = Commander(<<calls[c].by.value.p[1]>>)
    /\ \A d \in DOMAIN calls :
           calls[d].via # 0 =>
               LET c == calls[d].via
               IN  /\ calls[c].state = "resolved"
                   /\ isHandleResponse(calls[c].by.value)
                   /\ calls[d].topics = <<calls[c].by.value.p[1]>> \o calls[d].names
                   /\ \A t \in TasksOf(d) : tasks[t].request.topics = calls[d].topics
    /\ \A d \in DOMAIN calls :
           (/\ calls[d].via # 0
            /\ calls[calls[d].via].via = 0
            /\ calls[calls[d].via].names = <<Name("init")>>
            /\ calls[calls[d].via].args = <<Num(10)>>
            /\ calls[d].names = <<Name("multiply")>>
            /\ calls[d].args = <<Num(5)>>
            /\ calls[d].state # "pending"
            /\ AnsweredByExposer(d)) =>
               (calls[d].state = "resolved" /\ Promised(d) = Num(50))

\* init(10) gave a Commander and multiply(5) through it resolved to 50.
C14_Witness ==
    \E d \in DOMAIN calls :
        /\ calls[d].via # 0
        /\ calls[calls[d].via].names = <<Name("init")>>
        /\ calls[d].names = <<Name("multiply")>>
        /\ calls[d].state = "resolved"
        /\ AnsweredByExposer(d)
        /\ Promised(d) = Num(50)

\* C15: a method reached through a handle that returns a marker is answered
\* with a handle of its own, with a namespace id no other reply carries and
\* mapped to the inner object; calls through the Commander obtained for it
\* send that id alone before the accessed names and are dispatched on the
\* inner object.
C15_HandlesCompose ==
    /\ \A t \in DOMAIN tasks :
           (Namespaced(t) /\ ReturnedMarker(t)) =>
               \A i \in RepliesTo(t) :
                   /\ isHandleResponse(sent[i].message.value)
                   /\ sent[i].message.value.p[1] # tasks[t].request.topics[1]
                   /\ \A j \in HandleReplies :
                          j # i => sent[j].message.value.p[1] # sent[i].message.value.p[1]
                   /\ MapHas(namespaceHandlers, sent[i].message.value.p[1])
                   /\ MapGet(namespaceHandlers, sent[i].message.value.p[1])
                          = MarkerMethods(tasks[t].call.result.value)
    /\ \A d \in DOMAIN calls :
           (calls[d].via # 0 /\ calls[calls[d].via].via # 0) =>
               LET c == calls[d].via
               IN  /\ calls[d].topics = <<calls[c].by.value.p[1]>> \o calls[d].names
                   /\ \A t \in TasksOf(d) : \A tc \in TasksOf(c) :
                          /\ tasks[t].request.topics = calls[d].topics
                          /\ tasks[t].call.this = MarkerMethods(tasks[tc].call.result.value)
                          /\ \A i \in InvocationsOf(t) :
                                 invoked[i].this = MarkerMethods(tasks[tc].call.result.value)

\* init, then createInner through its handle, then getValue through the
\* inner handle, which resolved to 42.
C15_Witness ==
    \E d \in DOMAIN calls :
        /\ calls[d].via # 0 /\ calls[calls[d].via].via # 0
        /\ calls[calls[d].via].names = <<Name("createInner")>>
        /\ calls[d].names = <<Name("getValue")>>
        /\ calls[d].state = "resolved" /\ AnsweredByExposer(d)
        /\ Promised(d) = Num(42)

(***************************************************************************)
(* Properties of the Commander.                                            *)
(***************************************************************************)
\* Everything but the caller's proxies.
allButProxies == <<flavor, script, responder, peer, back, extraction, signal, messenger, exposed, stray, promiseRegistry, calls, foreign, lastHeard,
                   uncaught, toExposer, toRequester, listening, namespaceHandlers,
                   handleNamespaceCounter, tasks, invoked, sent>>

\* C16: a property access sends nothing and changes nothing, not even the
\* proxy accessed; applying a proxy sends exactly one Request whose topics
\* are the names accessed to reach that proxy, in order, and whose args are
\* the arguments applied; so every call's path holds the names of its own
\* chain only.
C16_AccessPureApplySendsOne ==
    /\ [](\A d \in DOMAIN calls :
              calls[d].topics = PrefixOf(calls[d].via) \o calls[d].names)
    /\ [][Len(proxies') > Len(proxies) =>
              /\ UNCHANGED allButProxies
              /\ \A p \in DOMAIN proxies : proxies'[p] = proxies[p]]_vars
    /\ [][Len(calls') > Len(calls) =>
              /\ Len(calls') = Len(calls) + 1
              /\ Len(toExposer') = Len(toExposer) + 1
              /\ toExposer'[Len(toExposer')] =
                     Wire(flavor, RequestCreate(calls'[Len(calls')].id,
                                                calls'[Len(calls')].names,
                                                calls'[Len(calls')].args))
              /\ UNCHANGED <<proxies, toRequester, tasks, sent>>]_vars

\* proxy.math.delayed(...) was called and then proxy.delayed(...), both
\* starting from the same root proxy, and the second was taken up by B.
C16_Witness ==
    \E d, e \in DOMAIN calls :
        /\ d < e
        /\ calls[d].names = <<Name("math"), Name("delayed")>>
        /\ calls[e].names = <<Name("delayed")>>
        /\ calls[e].args = <<Num(2), Num(1)>>
        /\ \E t \in TasksOf(e) : tasks[t].request.topics = <<Name("delayed")>>

(***************************************************************************)
(* End to end.                                                             *)
(***************************************************************************)
\* C17: a call of fail(), which throws Error("boom"), once answered by B,
\* is rejected with an error value that carries the message "boom".
C17_RejectsWithBoom ==
    \A d \in DOMAIN calls :
        (/\ calls[d].via = 0
         /\ calls[d].names = <<Name("fail")>>
         /\ calls[d].state # "pending"
         /\ AnsweredByExposer(d)) =>
            /\ calls[d].state = "rejected"
            /\ Promised(d).t = "Error"
            /\ Promised(d).s = "boom"

\* The same over a message port only.
C17_OnPort == (flavor = "port") => C17_RejectsWithBoom

\* What the method call c names does when called from `root` with the
\* arguments as they arrive.
OwnResult(root, c) ==
    callMethod(root, c.topics, Received(RequestCreate(c.id, c.topics, c.args)).args).result
\* Call c is settled as its own method ended: resolved with the value it
\* returned, or rejected when it raised or could not be found.
SettledByOwnResult(root, c) ==
    IF OwnResult(root, c).mode \in {"return", "resolve"}
    THEN c.state = "resolved"
         /\ c.value = Received(ResponseCreate(c.by, OwnResult(root, c).value)).value
    ELSE c.state = "rejected"
\* The tasks in which endpoint A took up the request of B's call d.
BackTasksOf(d) == {t \in DOMAIN back.tasks : back.tasks[t].request.id = back.calls[d].id}

\* C18: with both ends exposing and calling over one channel and both
\* requesters numbering their calls from the same first id, every settled
\* call of either end was settled by the reply the other end's exposer sent
\* for it and with the result of its own method; every request an exposer
\* took up is a Request the other end's requester sent, each once.
C18_BothEndsExposeAndCall ==
    /\ \A d \in DOMAIN calls :
           calls[d].state # "pending" =>
               /\ calls[d].by.kind \in {"response", "error"}
               /\ \E t \in TasksOf(d) : \E i \in RepliesTo(t) :
                      calls[d].by = Received(sent[i].message)
               /\ SettledByOwnResult(Root, calls[d])
    /\ \A d \in DOMAIN back.calls :
           back.calls[d].state # "pending" =>
               /\ back.calls[d].by.kind \in {"response", "error"}
               /\ \E t \in BackTasksOf(d) : \E i \in DOMAIN back.sent :
                      /\ back.sent[i].task = t
                      /\ back.calls[d].by = Received(back.sent[i].message)
               /\ SettledByOwnResult(RootA, back.calls[d])
    /\ Len(tasks) <= Len(calls)
    /\ \A t \in DOMAIN tasks : tasks[t].request = RequestOf(t)
    /\ Len(back.tasks) <= Len(back.calls)
    /\ \A t \in DOMAIN back.tasks :
           back.tasks[t].request = Received(RequestCreate(back.calls[t].id,
                                       back.calls[t].topics, back.calls[t].args))

\* A call of A and a call of B with the same id are both resolved, B's
\* ping() with "pong" and A's delayed(5) with 5.
C18_Witness ==
    \E d \in DOMAIN calls : \E e \in DOMAIN back.calls :
        /\ calls[d].id = back.calls[e].id
        /\ calls[d].state = "resolved" /\ calls[d].value = Num(5)
        /\ back.calls[e].state = "resolved" /\ back.calls[e].value = Str("pong")

(***************************************************************************)
(* Properties of extractTransferables.                                     *)
(***************************************************************************)
RECURSIVE MarkedIn(_)
RECURSIVE MarkedInAll(_, _)
\* The marked values met walking the tree depth first, left to right,
\* through arrays and plain records; a marked value is not walked into.
MarkedIn(value) ==
    IF value.t # "number" /\ value.marked THEN <<value>>
    ELSE IF value.t \in {"array", "record"} THEN MarkedInAll(value.kids, 1)
    ELSE <<>>
MarkedInAll(values, i) ==
    IF i > Len(values) THEN <<>> ELSE MarkedIn(values[i]) \o MarkedInAll(values, i + 1)

\* C19: the transferables returned are the marked values in depth-first,
\* left-to-right order; the args returned have the shape of the input with
\* every marked value in place; without marks the list is empty and the
\* args are structurally equal to the input.
C19_ExtractTransferables ==
    extraction.done =>
        /\ extraction.result.transferables = MarkedInAll(extraction.args, 1)
        /\ extraction.result.args = extraction.args
        /\ (MarkedInAll(extraction.args, 1) = <<>>) =>
               extraction.result.transferables = <<>>

\* {buf: transfer(x), list: [transfer(y), 3]} gave [x, y].
C19_Witness ==
    /\ extraction.done
    /\ extraction.args =
           <<Record(<<transfer(Buffer(1)), Array(<<transfer(Buffer(2)), Number(3)>>)>>)>>
    /\ extraction.result.transferables = <<transfer(Buffer(1)), transfer(Buffer(2))>>

(***************************************************************************)
(* Properties of the exposing endpoint's validation.                       *)
(***************************************************************************)
\* C20: a message that is no valid Request envelope (an arbitrary object, a
\* Response or an Error envelope) arriving at a responder or an exposing
\* endpoint invokes no callback or method and causes nothing to be sent.
C20_NonRequestIgnored ==
    [][stray' # stray =>
          /\ invoked' = invoked
          /\ tasks' = tasks
          /\ sent' = sent
          /\ toRequester' = toRequester
          /\ namespaceHandlers' = namespaceHandlers]_vars

\* All three kinds arrived, around a request that was invoked and answered.
C20_Witness ==
    /\ stray = StrayMessages
    /\ Len(invoked) = 1
    /\ Len(sent) = 1

\* The same on an endpoint built on createResponder.
C20_WitnessResponder ==
    /\ responder
    /\ stray = StrayMessages
    /\ Len(sent) = 1

(***************************************************************************)
(* The receiver of the invoked function.                                   *)
(***************************************************************************)
\* The object the path of task t is walked from, and the container its
\* last topic is looked up on.
BaseOf(t) ==
    LET topics == tasks[t].request.topics
    IN  IF Len(topics) > 0 /\ startsWith(topics[1], HANDLE_NAMESPACE_PREFIX)
        THEN MapGet(namespaceHandlers, topics[1]) ELSE Root
WalkedOf(t) ==
    LET topics == tasks[t].request.topics
    IN  IF Len(topics) > 0 /\ startsWith(topics[1], HANDLE_NAMESPACE_PREFIX)
        THEN Tail(topics) ELSE topics
ParentOf(t) == Reduce(BaseOf(t), SubSeq(WalkedOf(t), 1, Len(WalkedOf(t)) - 1))

\* C30: every function is invoked with its receiver bound to the container
\* it was looked up on, the immediate parent in the topic path; for a path
\* of two or more topics the receiver is not the root exposed object.
C30_ReceiverIsParent ==
    \A i \in DOMAIN invoked :
        /\ invoked[i].this = ParentOf(invoked[i].task)
        /\ Len(WalkedOf(invoked[i].task)) >= 2 => invoked[i].this # BaseOf(invoked[i].task)

\* What callMethod does instead: the receiver is the object the walk began at.
C30_ReceiverIsBase ==
    \A i \in DOMAIN invoked : invoked[i].this = BaseOf(invoked[i].task)

\* For a path of one topic the two agree.
C30_OneTopic ==
    \A i \in DOMAIN invoked :
        Len(WalkedOf(invoked[i].task)) = 1 => invoked[i].this = ParentOf(invoked[i].task)

(***************************************************************************)
(* Concurrent invocations on the exposing side.                            *)
(***************************************************************************)
Running(t) == tasks[t].state = "running"
\* Task t ends in this step: it is taken up and ends in the same turn, or
\* the promise it was waiting for settles.
EndsNow(t) == tasks'[t].state = "done" /\ (t \in DOMAIN tasks => Running(t))

\* C29: invocations are independent.  A request that arrives is dispatched
\* whatever else is still running, and leaves the running ones as they
\* are; the reply for a request is sent in the step in which its method
\* ends, so that replies leave in completion order, not in arrival order.
C29_IndependentInvocations ==
    [][/\ (/\ toExposer # <<>>
           /\ toExposer' = Tail(toExposer)
           /\ RequestValidate(parseData(Head(toExposer)))
           /\ RPCPayloadValidate(parseData(Head(toExposer))))
          => /\ Len(tasks') = Len(tasks) + 1
             /\ tasks'[Len(tasks')].request = parseData(Head(toExposer))
             /\ \A u \in DOMAIN tasks : tasks'[u] = tasks[u]
       /\ \A t \in DOMAIN tasks' :
              IF EndsNow(t)
              THEN /\ Len(sent') = Len(sent) + 1
                   /\ sent'[Len(sent')].task = t
                   /\ sent'[Len(sent')].message.id = tasks'[t].request.id
              ELSE RepliesTo(t)' = RepliesTo(t)]_vars

\* The first request's method is still running while the second one, which
\* arrived later, has already been answered.
C29_Witness ==
    /\ Len(tasks) = 2
    /\ Running(1)
    /\ Done(2)
    /\ Len(sent) = 1 /\ sent[1].task = 2

\* Both requests were asynchronous and the later one was answered first.
C29_WitnessOutOfOrder ==
    /\ Len(tasks) = 2 /\ Done(1) /\ Done(2)
    /\ tasks[1].awaited.mode = "resolve" /\ tasks[2].awaited.mode = "resolve"
    /\ Len(sent) = 2 /\ sent[1].task = 2 /\ sent[2].task = 1

(***************************************************************************)
(* Properties of the pending-call registry.                                *)
(***************************************************************************)
Pending == {c \in DOMAIN calls : calls[c].state = "pending"}
\* The registry entries stored under id.
EntriesOf(id) == {i \in DOMAIN promiseRegistry.entries : promiseRegistry.entries[i].id = id}

\* C27: the ids of the calls outstanding in one requester are pairwise
\* distinct and each maps to exactly one pending entry, that call's own; an
\* id is handed out only while no entry holds it.
C27_OutstandingIdsDistinct ==
    /\ [](/\ \A c, d \in Pending : c # d => calls[c].id # calls[d].id
          /\ \A c \in Pending :
                 /\ Cardinality(EntriesOf(calls[c].id)) = 1
                 /\ \A i \in EntriesOf(calls[c].id) : promiseRegistry.entries[i].value = c)
    /\ [][Len(calls') = Len(calls) + 1
              => /\ calls'[Len(calls')].id \notin promiseRegistry.ids
                 /\ calls'[Len(calls')].id \in promiseRegistry'.ids]_vars

\* Two calls are outstanding at once, each under its own id.
C27_Witness ==
    /\ Len(calls) = 2
    /\ Pending = {1, 2}
    /\ calls[1].id # calls[2].id
    /\ Len(promiseRegistry.entries) = 2

\* C28: a pending entry leaves the registry, and its call is settled, only
\* in a step in which the listener hears a Response or Error envelope with
\* that id; nothing else (no timeout, retry or cancellation) removes it, so
\* a call with no reply stays registered and unsettled.
C28_LeavesOnlyByReply ==
    [][\A c \in Pending :
           (calls'[c].state # "pending" \/ calls[c].id \notin promiseRegistry'.ids)
               => \E data \in Audible :
                      /\ data.id = calls[c].id
                      /\ data.kind \in {"response", "error"}
                      /\ Hears(data)]_vars

\* Nothing is in flight and nothing runs any more, other replies were
\* heard, and the first call is still registered and unsettled.
C28_Witness ==
    /\ Len(calls) = 2
    /\ calls[1].state = "pending" /\ calls[1].id \in promiseRegistry.ids
    /\ calls[2].state # "pending"
    /\ toExposer = <<>> /\ toRequester = <<>>
    /\ foreign = MaxForeign
    /\ lastHeard.data.id # calls[1].id

(***************************************************************************)
(* Text that does not decode, on the socket flavor.                        *)
(***************************************************************************)
\* C21: on the socket flavor a text that fails to decode is dropped on both
\* sides: at the exposing endpoint nothing is sent and no method is invoked,
\* at the calling endpoint no pending call is settled; no exception leaves
\* a listener, and the listeners go on handling later messages: every
\* request is still taken up and answered once its method has ended.
C21_MalformedTextDropped ==
    /\ [][stray' # stray =>
              /\ sent' = sent /\ toRequester' = toRequester
              /\ invoked' = invoked /\ tasks' = tasks
              /\ listening' = listening]_vars
    /\ [][foreign' # foreign =>
              /\ calls' = calls /\ promiseRegistry' = promiseRegistry
              /\ toExposer' = toExposer]_vars
    /\ [](/\ listening /\ uncaught = {}
          /\ Len(tasks) + Len(toExposer) = Len(calls)
          /\ \A t \in DOMAIN tasks : Done(t) => Cardinality(RepliesTo(t)) = 1)

\* A text that does not decode arrived at the exposing endpoint between
\* two requests and at the calling endpoint before the last reply; the
\* second request was still answered and its reply settled the call.
C21_Witness ==
    /\ stray = {MalformedHeard(1)} /\ foreign = MaxForeign
    /\ Len(calls) = 2 /\ Len(tasks) = 2 /\ Len(sent) = 2
    /\ lastHeard.known /\ lastHeard.data.id = calls[2].id
    /\ \A c \in DOMAIN calls : calls[c].state # "pending"

(***************************************************************************)
(* The abort signal of a requester.                                        *)
(***************************************************************************)
\* C22: once the abort signal given to a requester has fired it stays
\* fired, and no call of that requester is settled any more, neither
\* resolved nor rejected: the calls outstanding when it fired and the calls
\* issued afterwards stay pending and registered, also when their replies
\* arrive.
C22_AbortedNeverSettles ==
    /\ [][signal.aborted =>
              /\ signal'.aborted
              /\ \A c \in DOMAIN calls :
                     /\ calls'[c].state = calls[c].state
                     /\ calls[c].id \in promiseRegistry.ids
                            => calls[c].id \in promiseRegistry'.ids]_vars
    /\ [](signal.aborted =>
              \A c \in DOMAIN calls : c > signal.at => calls[c].state = "pending")

\* The signal fired while the first call was outstanding, a second call was
\* issued afterwards, B answered both and both replies were delivered: the
\* two calls are still pending.
C22_Witness ==
    /\ signal = Signal(TRUE, 1)
    /\ Len(calls) = 2 /\ Len(sent) = 2
    /\ toExposer = <<>> /\ toRequester = <<>>
    /\ \A c \in DOMAIN calls :
           calls[c].state = "pending" /\ calls[c].id \in promiseRegistry.ids

(***************************************************************************)
(* Properties of the adapters on their target.                             *)
(***************************************************************************)
\* A window-like target: a postMessage function and a boolean closed field.
WindowLike ==
    messenger.object /\ messenger.postMessage = "function" /\ messenger.closed = "boolean"

C23_WitnessWorker ==
    /\ ~WindowLike /\ messenger.closed = "boolean"
    /\ \E i \in Posts : Len(messenger.log[i].args) = 2

\* The calls of `method` adapter `by` made on the target.
MadeBy(by, method) ==
    {i \in DOMAIN messenger.log :
         messenger.log[i].by = by /\ messenger.log[i].method = method}

\* C24: every adapter instance attaches one message listener; on a target
\* with a start function it calls start exactly once, after the listener is
\* attached; on a target without one it never calls start.
C24_StartOnceAfterListening ==
    \A by \in DOMAIN messenger.adapters :
        /\ Cardinality(MadeBy(by, "addEventListener")) = 1
        /\ IF messenger.start = "function"
           THEN /\ Cardinality(MadeBy(by, "start")) = 1
                /\ \A i \in MadeBy(by, "start") :
                       \A j \in MadeBy(by, "addEventListener") : j < i
           ELSE MadeBy(by, "start") = {}

\* Two adapters on one startable target: each started it once.
C24_Witness ==
    /\ messenger.start = "function"
    /\ messenger.adapters = <<"rpc", "createResponder">>
    /\ Cardinality(MadeBy(1, "start")) = 1 /\ Cardinality(MadeBy(2, "start")) = 1

\* An adapter on a target whose start is present but no function.
C24_WitnessNoStart ==
    /\ messenger.start = "undefined"
    /\ messenger.adapters # <<>>
    /\ \A i \in DOMAIN messenger.log : messenger.log[i].method # "start"

(***************************************************************************)
(* Properties of an endpoint that exposes a factory.                       *)
(***************************************************************************)
IsInit(data) == RequestValidate(data) /\ data.value = InitPayload
IsCall(data) == RequestValidate(data) /\ RPCPayloadValidate(data)

\* C25: a Request carrying an init payload is answered with a Response
\* carrying the same id and an undefined payload, after the exposed factory
\* has been invoked exactly once, with the init payload's args.
C25_InitAnswered ==
    [][\A data \in FactoryRequests :
           (IsInit(data) /\ Emit(data)) =>
               /\ Len(invoked') = Len(invoked) + 1
               /\ invoked'[Len(invoked')].fn = Factory
               /\ invoked'[Len(invoked')].args = parseData(Wire(flavor, data)).args
               /\ Len(sent') = Len(sent) + 1
               /\ sent'[Len(sent')].message = ResponseCreate(data, Undefined)]_vars

\* What the listeners do with an init Request: no function is invoked for it.
C25_FactoryNotInvoked ==
    [][\A data \in FactoryRequests :
           (IsInit(data) /\ Emit(data)) => invoked' = invoked]_vars

\* An init Request has been taken up and answered before task t.
InitProcessedBefore(t) == \E u \in 1 .. t - 1 : IsInit(tasks[u].request)

\* C26: an rpc-call Request that arrives before any init Request has been
\* processed is answered with an Error envelope carrying its id, and no
\* method of the object the factory would create is invoked.
C26_CallBeforeInitIsError ==
    \A t \in DOMAIN tasks :
        (IsCall(tasks[t].request) /\ ~InitProcessedBefore(t)) =>
            /\ \A i \in InvocationsOf(t) : invoked[i].fn # Fn("greet", 0)
            /\ Cardinality(RepliesTo(t)) = 1
            /\ \A i \in RepliesTo(t) :
                   /\ sent[i].message.kind = "error"
                   /\ sent[i].message.id = tasks[t].request.id

\* The same for a path that names something, on the endpoints that answer
\* what callMethod throws.
C26_NamedPath ==
    \A t \in DOMAIN tasks :
        (/\ IsCall(tasks[t].request) /\ ~InitProcessedBefore(t)
         /\ tasks[t].request.topics # <<>> /\ ~responder) =>
            /\ InvocationsOf(t) = {}
            /\ \A i \in RepliesTo(t) :
                   /\ sent[i].message.kind = "error"
                   /\ sent[i].message.id = tasks[t].request.id

(***************************************************************************)
(* The Remote Reference Registry over time.                                *)
(***************************************************************************)
\* The registry entries whose key is the first topic of task t's request.
EntryOf(t) == {e \in namespaceHandlers : e.key = tasks[t].request.topics[1]}

\* C31: an entry of the Remote Reference Registry, once created, is never
\* removed or overwritten: every entry of the registry is still there, with
\* the same wrapped object, after every step (so the set of keys only
\* grows), no key has two entries, and every invocation made through a
\* namespace id ran on the object the registry holds for that id.
C31_EntriesAreStable ==
    /\ [][\A e \in namespaceHandlers : e \in namespaceHandlers']_vars
    /\ [](\A e, f \in namespaceHandlers : e.key = f.key => e = f)
    /\ [](\A i \in DOMAIN invoked :
              Namespaced(invoked[i].task) =>
                  \E e \in EntryOf(invoked[i].task) : invoked[i].this = e.value)

\* Two handles were issued, and after the second a call through the first
\* id still ran multiply on the object init(10) wrapped.
C31_Witness ==
    /\ Cardinality(namespaceHandlers) = 2
    /\ \E i \in DOMAIN invoked :
           /\ Namespaced(invoked[i].task)
           /\ tasks[invoked[i].task].request.topics[1] = Prefixed("0")
           /\ tasks[invoked[i].task].at >= 2
           /\ invoked[i].fn = Fn("multiply", 10)
           /\ invoked[i].this = Obj("calc", 10)

\* C32: a request whose first topic begins with the reserved prefix is never
\* resolved against the root, even when the root has a property of that
\* name: whatever it invokes is what the rest of its path names on the
\* object the registry holds for that first topic, called on that object,
\* and when the registry holds nothing for it nothing is invoked.
C32_OnlyThroughRegistry ==
    \A t \in DOMAIN tasks :
        Namespaced(t) =>
            \A i \in InvocationsOf(t) :
                \E e \in EntryOf(t) :
                    /\ invoked[i].this = e.value
                    /\ invoked[i].this # exposed
                    /\ invoked[i].fn = Reduce(e.value, Tail(tasks[t].request.topics))

\* A request whose only topic is a reserved-prefix name that the root holds
\* as a function was answered with an Error and invoked nothing.
C32_Witness ==
    \E t \in DOMAIN tasks :
        /\ Namespaced(t)
        /\ Reduce(exposed, tasks[t].request.topics).t = "function"
        /\ InvocationsOf(t) = {}
        /\ \E i \in RepliesTo(t) : sent[i].message.kind = "error"

\* The same while the registry holds an entry for that very name.
C32_WitnessRegistered ==
    \E t \in DOMAIN tasks :
        /\ Namespaced(t)
        /\ EntryOf(t) # {}
        /\ Reduce(exposed, tasks[t].request.topics).t = "function"
        /\ InvocationsOf(t) = {}
        /\ \E i \in RepliesTo(t) : sent[i].message.kind = "error"

\* The requests the second endpoint took up whose first topic is a
\* namespace id that endpoint B has issued.
CarriesForeignId ==
    {i \in DOMAIN peer.heard :
        /\ Len(peer.heard[i].topics) >= 1
        /\ MapHas(namespaceHandlers, peer.heard[i].topics[1])}

\* C37: remote references are isolated per exposing endpoint: a namespace
\* id issued by endpoint B is unknown to the other exposing endpoint of the
\* process, and a request that carries it to that endpoint invokes nothing
\* there and is answered with an Error that mentions the unknown namespace.
C37_IsolatedPerEndpoint ==
    /\ \A e \in namespaceHandlers : ~MapHas(peer.namespaceHandlers, e.key)
    /\ \A i \in CarriesForeignId :
           /\ \A j \in DOMAIN peer.invoked : peer.invoked[j].request # i
           /\ MentionsNamespace(parseData(Wire(peer.flavor, peer.sent[i])),
                                peer.heard[i].topics[1])

\* The same when both endpoints are messenger endpoints (one counter, and
\* replies that are structured-cloned).
C37_BothOnPort == (flavor = "port" /\ peer.flavor = "port") => C37_IsolatedPerEndpoint

\* Between two messenger endpoints, B's id reached the other endpoint after
\* that one had issued a handle of its own, and invoked nothing there.
C37_WitnessOnPort ==
    /\ flavor = "port" /\ peer.flavor = "port"
    /\ peer.namespaceHandlers # {}
    /\ \E i \in CarriesForeignId :
           /\ i = 2
           /\ peer.sent[i].kind = "error"
           /\ peer.invoked = <<[request |-> 1, fn |-> Fn("init", 0), this |-> Root]>>

\* The path walked by own properties only.
RECURSIVE OwnReduce(_, _)
OwnReduce(acc, topics) ==
    IF topics = <<>> THEN acc ELSE OwnReduce(OwnProp(acc, Head(topics)), Tail(topics))

\* Task t's path names, somewhere, a property that is not an own property
\* of the object reached so far.
NamesInherited(t) == OwnReduce(BaseOf(t), WalkedOf(t)).t # "function"

\* C38: dispatch invokes only functions that are own properties of the
\* exposed tree or of a handle's object: a request whose path does not end,
\* by own properties, at a function invokes nothing and is answered with an
\* Error saying the path did not resolve.
C38_OwnPropertiesOnly ==
    \A t \in DOMAIN tasks :
        ((~Namespaced(t) \/ EntryOf(t) # {}) /\ NamesInherited(t)) =>
            /\ InvocationsOf(t) = {}
            /\ \A i \in RepliesTo(t) : sent[i].message.kind = "error"

\* A request for ["toString"] was taken up.
C38_NamedInherited ==
    \E t \in DOMAIN tasks :
        /\ tasks[t].request.topics = <<Name("toString")>>
        /\ NamesInherited(t)
        /\ RepliesTo(t) # {}

\* C39: once the signal given to expose has fired, a request that arrives
\* starts no task, invokes nothing and produces no reply; a task that was
\* running when it fired still sends its reply in the step in which its
\* method completes, and nothing else is sent.
C39_AbortedExposeIsSilent ==
    [][exposeSignal.aborted =>
          /\ Len(tasks') = Len(tasks)
          /\ invoked' = invoked
          /\ \A t \in DOMAIN tasks :
                 IF Running(t) /\ tasks'[t].state = "done"
                 THEN /\ Len(sent') = Len(sent) + 1
                      /\ sent'[Len(sent')].task = t
                      /\ toRequester' = Append(toRequester, Wire(flavor, sent'[Len(sent')].message))
                 ELSE RepliesTo(t)' = RepliesTo(t)
          /\ Len(sent') > Len(sent) => \E t \in DOMAIN tasks : EndsNow(t)]_vars

\* The signal fired while delayed(1) was running and before anything had
\* been sent; a second request arrived after that and was dropped, and the
\* running task's Response was sent all the same.
C39_Witness ==
    /\ exposeSignal = Signal(TRUE, 0)
    /\ Len(calls) = 2 /\ toExposer = <<>>
    /\ Len(tasks) = 1 /\ Done(1)
    /\ invoked = <<[task |-> 1, fn |-> Fn("delayed", 0), this |-> Root, args |-> <<Num(1)>>]>>
    /\ Len(sent) = 1
    /\ sent[1].message = ResponseCreate(tasks[1].request, Num(1))

\* C34: the pending entry is registered before the Request is handed to the
\* channel: a reply that the messenger delivers while postMessage runs
\* finds the entry (its id is known to the registry at that moment), settles
\* the call once, with that reply, and leaves no entry behind.
C34_RegisteredBeforePosted ==
    /\ \A c \in DOMAIN calls :
           calls[c].channel = "echoes" =>
               /\ calls[c].state = (IF calls[c].by.kind = "error" THEN "rejected" ELSE "resolved")
               /\ calls[c].settles = 1
               /\ calls[c].by.id = calls[c].id
               /\ calls[c].by.kind \in {"response", "error"}
               /\ calls[c].id \notin promiseRegistry.ids
    /\ (lastHeard.data # NoEnvelope /\ \E c \in DOMAIN calls :
            calls[c].channel = "echoes" /\ calls[c].by = lastHeard.data) => lastHeard.known

\* A call whose Response was delivered during postMessage resolved to it.
C34_Witness ==
    \E c \in DOMAIN calls :
        /\ calls[c].channel = "echoes"
        /\ calls[c].state = "resolved"
        /\ Promised(c) = Num(7)
        /\ lastHeard.known

\* C36: when the channel's send raises while a call is issued, the
\* exception leaves the send function (no promise is returned), the pending
\* entry registered just before stays in the registry, and the call's
\* promise is never settled: in every state such a call is still pending,
\* was settled by nothing, and its id is still registered.
C36_RaisedSendLeavesEntry ==
    \A c \in DOMAIN calls :
        calls[c].channel = "throws" =>
            /\ calls[c].raised
            /\ calls[c].state = "pending"
            /\ calls[c].settles = 0
            /\ calls[c].by = NoEnvelope
            /\ \E i \in DOMAIN promiseRegistry.entries :
                   /\ promiseRegistry.entries[i].id = calls[c].id
                   /\ promiseRegistry.entries[i].value = c

\* The first call's send raised; a second call went through and was
\* answered, and the first call's entry is still the only one registered.
C36_Witness ==
    /\ Len(calls) = 2
    /\ calls[1].channel = "throws" /\ calls[1].raised
    /\ calls[2].channel = "queues" /\ calls[2].state = "resolved"
    /\ promiseRegistry.ids = {calls[1].id}
    /\ toRequester = <<>>

\* The call (of either requester) was settled by a reply that endpoint B
\* sent for that call's own request.
SettledByOwnReply(call) ==
    \E t \in DOMAIN tasks :
        /\ tasks[t].request = Received(RequestCreate(call.id, call.topics, call.args))
        /\ \E i \in RepliesTo(t) : Received(sent[i].message) = call.by

\* C35: with two requesters on one messenger, a call made through one of
\* them is settled only by the reply to its own request, never by the
\* reply to a request of the other.
C35_SettledOnlyByOwnReply ==
    /\ \A c \in DOMAIN calls :
           calls[c].state # "pending" => SettledByOwnReply(calls[c])
    /\ \A c \in DOMAIN sibling.calls :
           sibling.calls[c].state # "pending" => SettledByOwnReply(sibling.calls[c])

\* Both proxies have a call outstanding under the same id.
C35_SameIdOutstanding ==
    \E c \in DOMAIN calls : \E e \in DOMAIN sibling.calls :
        /\ calls[c].state = "pending" /\ sibling.calls[e].state = "pending"
        /\ calls[c].id = sibling.calls[e].id

(***************************************************************************)
(* extractTransferables and the objects it is given.                       *)
(***************************************************************************)
RECURSIVE InputAt(_, _)
\* The value of the input at a place: kids[path[1]] ... from the args in.
InputAt(values, path) ==
    IF Len(path) = 1 THEN values[path[1]]
    ELSE InputAt(values[path[1]].kids, Tail(path))

\* An array or plain record that carries no mark: what processValue walks
\* into.
IsContainer(value) == value.t \in {"array", "record"} /\ ~isTransferred(value)

RECURSIVE CarriedOrRebuilt(_)
\* Of the returned object and everything it holds: what stands for a
\* container of the input is a fresh object holding as many values, and
\* what stands for anything else is the input's own object, not looked into.
CarriedOrRebuilt(returned) ==
    LET value == InputAt(extraction.args, returned.ref.path)
    IN  IF IsContainer(value)
        THEN /\ returned.ref.fresh
             /\ Len(returned.kids) = Len(value.kids)
             /\ \A i \in DOMAIN returned.kids :
                    /\ returned.kids[i].ref.path = Append(returned.ref.path, i)
                    /\ CarriedOrRebuilt(returned.kids[i])
        ELSE /\ ~returned.ref.fresh
             /\ returned.kids = <<>>

\* C33: extractTransferables never mutates its inputs (every object it
\* assigns into is one it allocated, and the input reads the same after
\* the call); every array and plain record on the way is rebuilt as a new
\* container, and marked values, functions, class instances and primitives
\* are carried over as the very same object and not recursed into.
C33_InputsUntouched ==
    /\ [][extraction'.args = extraction.args]_vars
    /\ [](extraction.done =>
             \A i \in DOMAIN extraction.identity :
                 /\ \A ref \in extraction.identity[i].writes : ref.fresh
                 /\ extraction.identity[i].ref.path = <<i>>
                 /\ CarriedOrRebuilt(extraction.identity[i]))

\* { buf: transfer(x), list: [f, instance] }: the record and the array came
\* back as new objects, the marked buffer, the function and the instance as
\* themselves.
C33_Witness ==
    /\ extraction.done
    /\ extraction.args =
           <<Record(<<transfer(Buffer(1)),
                      Array(<<Function(1), Instance(<<transfer(Buffer(2))>>)>>)>>)>>
    /\ extraction.identity[1].ref = Ref(TRUE, <<1>>)
    /\ extraction.identity[1].kids[1] = Returned(Ref(FALSE, <<1, 1>>), <<>>, {})
    /\ extraction.identity[1].kids[2].ref = Ref(TRUE, <<1, 2>>)
    /\ extraction.identity[1].kids[2].kids[1].ref = Ref(FALSE, <<1, 2, 1>>)
    /\ extraction.identity[1].kids[2].kids[2] = Returned(Ref(FALSE, <<1, 2, 2>>), <<>>, {})
    /\ extraction.result.transferables = <<transfer(Buffer(1))>>

====
